---- MODULE Spec2Model ----
(***************************************************************************)
(* Model of the tile-parallel renderer (src/src/renderer.rs), of the loop  *)
(* that drives it (src/src/app.rs) and of the recursive tracer             *)
(* (src/src/ray_tracing/ray_tracing.rs).                                   *)
(*                                                                         *)
(* Colours are exact rationals: a colour channel is an integer number of   *)
(* 1/Quantum units, so that the division by frame_index and the clamp to   *)
(* [0,1] are computed exactly (f32 rounding is not modelled).  The three   *)
(* colour channels of a Vec4 are treated alike by every operation of the   *)
(* renderer (component-wise +=, /=, clamp), so a Vec4 is [rgb, w].         *)
(* The sample of a pixel is the colour that the tracer returns for the ray *)
(* through it on the scene given to the render call, and the numbers it    *)
(* draws are drawn from the generator of the thread that shades the pixel. *)
(*                                                                         *)
(* Spec is the renderer driven by the application loop; SpecApp adds the   *)
(* logic ticks of the loop and the scene update hook.  SpecTrace is one    *)
(* evaluation of RayTracing::albedo on a scene and a primary ray, SpecScan *)
(* one call of RayTracing::trace_ray, SpecMarch one call of                *)
(* RayMarching::march_ray (src/src/ray_marching/ray_marching.rs).          *)
(* SpecUnion, SpecSample and SpecReflect apply Union::sdf,                 *)
(* Texture::baricentric_pixel and geometry::reflect to bounded arguments.  *)
(* SpecLight is one call of RayTracing::light, SpecShade one call of       *)
(* RayMarching::albedo on a scene with a Union or a Substraction, SpecMove *)
(* the update hook of bin/scene4.rs followed by render calls, and SpecLoop *)
(* the loop of App::run with its locals (updated, changed).                *)
(***************************************************************************)
EXTENDS Integers, Sequences, FiniteSets, TLC

\* ------------------------------------------------------------------ bounds
MaxPixels   == 5      \* camera sizes have width*height <= MaxPixels
MaxHeight   == 2      \* camera heights are 1..MaxHeight
MaxTiles    == 2      \* num_chunks is drawn from 1..MaxTiles
NumWorkers  == 2      \* threads of the rayon pool
MaxShaded   == 2      \* cap on frame_index of a call that shades
RngMod      == 2      \* period of a thread-local generator
Quantum     == 2      \* a colour channel is a multiple of 1/Quantum
MaxBounces  == 2      \* scene.max_ray_bounces is drawn from 0..MaxBounces
MaxObjects  == 2      \* scene.objects has at most MaxObjects objects
MaxLights   == 1      \* scene.lights has at most MaxLights lights
MaxAmbient  == 1      \* scene.ambient_color is drawn from 0..MaxAmbient
MaxScanned  == 3      \* trace_ray alone is applied to at most MaxScanned objects
MaxSdfs     == 2      \* the marcher's scene has at most MaxSdfs objects
MaxTenths   == 12     \* distances given to Union::sdf are within MaxTenths / 10
MaxTicks    == 2      \* logic ticks of the application loop
MaxTexSide  == 2      \* a sampled texture has width and height in 1..MaxTexSide
MaxUv       == 15     \* u and v are within MaxUv / 10 of 0
MaxCoord    == 2      \* a reflected vector has components in -MaxCoord..MaxCoord
MaxMaterial == 2      \* a combined object's parts have material_index in 1..MaxMaterial
MaxWindow   == 2      \* windows of the application loop have width*height <= MaxWindow

\* ------------------------------------------------------- program constants
DefaultMaxFrames == 1000   \* Renderer::new: max_frames_rendering
MAX_STEPS == 255           \* ray_marching.rs: iterations of march_ray
MAX_DISTANCE == 40         \* ray_marching.rs: t beyond it is a miss

Workers == 1..NumWorkers
Sizes   == {s \in (1..MaxPixels) \X (1..MaxHeight) : s[1] * s[2] <= MaxPixels}
FrameLimits == {MaxShaded - 1, MaxShaded, DefaultMaxFrames}
WindowSizes == {s \in Sizes : s[1] * s[2] <= MaxWindow}

Min(a, b) == IF a < b THEN a ELSE b
Max(a, b) == IF a > b THEN a ELSE b

\* ---------------------------------------------------------------- colours
\* A Vec4 is the colour rgb/(Quantum*den) with fourth component w/den.
Vec4(rgb, w) == [rgb |-> rgb, w |-> w, den |-> 1]
Vec4Zero == Vec4(0, 0)

\* a += b (both with denominator 1: accumulators and samples)
Vec4Add(a, b) == [rgb |-> a.rgb + b.rgb, w |-> a.w + b.w, den |-> a.den]

\* a /= n
Vec4Div(a, n) == [a EXCEPT !.den = a.den * n]

\* a.clamp(Vec4::ZERO, Vec4::ONE)
Vec4Clamp(a) ==
    [rgb |-> Min(Max(a.rgb, 0), Quantum * a.den),
     w   |-> Min(Max(a.w, 0), a.den),
     den |-> a.den]

\* `x as u8` for a float x given as floor(x): the cast truncates and saturates
AsU8(x) == Min(Max(x, 0), 255)

\* Renderer::to_rgba
to_rgba(c) ==
    LET b == AsU8((255 * c.rgb) \div (Quantum * c.den))
    IN  <<b, b, b, AsU8((c.w + 255 * c.den) \div c.den)>>

\* ----------------------------------------------------------------- camera
\* Camera::calculate_ray_directions: entry x + y*width is the direction
\* through pixel (x, y); a direction is identified by its pixel.
RayDirections(cam) ==
    [i \in 1..(cam.width * cam.height) |->
        [x |-> (i - 1) % cam.width, y |-> (i - 1) \div cam.width]]

\* ThreadRng: the number drawn and the generator's next state
RngDraw(s) == s
RngNext(s) == (s + 1) % RngMod

\* the generator state after n draws
RECURSIVE RngAfter(_, _)
RngAfter(g, n) == IF n = 0 THEN g ELSE RngNext(RngAfter(g, n - 1))

\* ------------------------------------------------------------------- state
VARIABLES
    accumulated,           \* Renderer.accumulated: Seq(Vec4)
    enable_accumulation,   \* Renderer.enable_accumulation
    max_frames_rendering,  \* Renderer.max_frames_rendering
    frame_index,           \* Renderer.frame_index
    camera,                \* Camera width, height (ray_directions derived)
    img,                   \* the caller's byte buffer, Seq(0..255)
    pc,                    \* "new", "idle", "par", "panic", "failed"
    chunks,                \* the chunk tasks of the render call in flight
    tile_count,            \* its argument num_chunks (0: no call in flight)
    rng,                   \* state of each worker's thread-local generator
    call,                  \* history: the decision of the last render call
                           \*   (with the scene's diffuse flag if it returned early)
    shade_log,             \* history: per pixel, what the last call shaded
    rng_dirty,             \* history: the generators advanced by a finished task
    acc_rays,              \* history: per accumulator, the rays summed in it
    shaded_frames,         \* history: shading calls since the last reset
    scene,                 \* RayTracing.scene
    primary,               \* the arguments of albedo: the ray and the generator
    traced,                \* the colour albedo returned, the generator after
    found,                 \* what trace_ray returned for the primary ray
    march,                 \* RayMarching::march_ray: its locals t and i
    probe,                 \* a function of the geometry: arguments and result
    app                    \* App::run: the logic ticks and the calls of the hook

rvars == <<accumulated, enable_accumulation, max_frames_rendering, frame_index,
           camera, img, pc, chunks, tile_count, rng, call,
           shade_log, rng_dirty, acc_rays, shaded_frames>>
tvars == <<scene, primary, traced, found>>
mvars == <<march, probe, app>>
vars == <<rvars, tvars, mvars>>

\* ---------------------------------------------------- tracer: the scene
\* The tracer is modelled on scenes laid out along one axis, z: lengths are
\* in units of EPSILON, and the arithmetic is that of the reals (an f32 is
\* not rounded).  The origin of a ray is <<origin_x, origin_y, origin>>,
\* origin the whole coordinate on the axis, origin_x and origin_y fractions.
\* Its field vector is the direction <<x, y, z>> times a positive number
\* (normalize() is left undone); the zero vector stands for the NaN vector
\* that normalize() makes of it.  Its field direction is the sign of z: -1
\* or 1, the direction itself, on a ray along the axis, which every ray is
\* but a primary ray across the axis, a jittered reflection and what follows
\* them.  A ray off the axis
\* meets planes across the axis: the point where it meets one has fractions
\* for x and y, and its distance is a fraction times the length of vector.
\* A plane is perpendicular to the axis (normal 1 or -1) or parallel to it
\* (normal 0); a sphere has its centre position_x beside the axis; a triangle
\* has vertices <<x, y, z>>.  The point of a hit is <<point_x, point_y,
\* point>>, its normal is along the axis (normal) or across it (normal_x).
\* The fields of a hit that are NaN are listed in its field nan, and hold 0.
\* u and v of a hit are decimals.

Sign(x) == IF x > 0 THEN 1 ELSE IF x < 0 THEN -1 ELSE 0
Abs(x) == IF x < 0 THEN -x ELSE x

None == [some |-> FALSE]

\* A fraction is a record [num, den] with den > 0; the arithmetic is exact.
\* (1 over 0 is infinite, 0 over 0 is NaN.)
Frac(num, den) == [num |-> num, den |-> den]

\* the greatest common divisor of two naturals
RECURSIVE Gcd(_, _)
Gcd(a, b) == IF b = 0 THEN a ELSE Gcd(b, a % b)

\* the fraction num / den (den # 0) in lowest terms
Lowest(num, den) ==
    LET g == Gcd(Abs(num), Abs(den))
    IN  [num |-> (Sign(den) * num) \div g, den |-> Abs(den) \div g]

\* the whole number n as a fraction; a fraction plus a whole number; the sum
\* of two fractions; a fraction rounded down to a whole number
Over1(n) == [num |-> n, den |-> 1]
FracPlus(f, n) == [num |-> f.num + n * f.den, den |-> f.den]
FracSum(f, g) ==
    Lowest(f.num * (g.den \div Gcd(f.den, g.den))
              + g.num * (f.den \div Gcd(f.den, g.den)),
           f.den * (g.den \div Gcd(f.den, g.den)))
Floor(f) == f.num \div f.den

\* the product of two fractions
FracTimes(f, g) ==
    Lowest((f.num \div Gcd(Abs(f.num), g.den))
              * (g.num \div Gcd(Abs(g.num), f.den)),
           (f.den \div Gcd(Abs(g.num), f.den))
              * (g.den \div Gcd(Abs(f.num), g.den)))

\* the position of the leading bit of n > 0
RECURSIVE Log2(_)
Log2(n) == IF n < 2 THEN 0 ELSE 1 + Log2(n \div 2)

\* A colour is a sum of fractions times powers x^0.4166 of fractions x > 0,
\* the numbers light() makes of an l_acc: a function from the x, in lowest
\* terms, to the fractions, which are not 0.  The power of 1 is the plain
\* number; the black colour is the empty sum.  (The three channels are
\* treated alike by every operation of the tracer.)
Black == << >>
Coef(c, x) == IF x \in DOMAIN c THEN c[x] ELSE Over1(0)

\* the colour that is the number f; the sum of two colours; a colour times
\* the number f; the product of two colours, to which x^0.4166 * y^0.4166
\* is (x * y)^0.4166
Grey(f) == IF f.num = 0 THEN Black ELSE [x \in {Over1(1)} |-> f]
ColourSum(c, d) ==
    [x \in {y \in DOMAIN c \cup DOMAIN d :
                FracSum(Coef(c, y), Coef(d, y)).num # 0} |->
        FracSum(Coef(c, x), Coef(d, x))]
ColourTimes(c, f) ==
    IF f.num = 0 THEN Black ELSE [x \in DOMAIN c |-> FracTimes(c[x], f)]
RECURSIVE ColourShifted(_, _, _)
ColourShifted(c, d, todo) ==
    IF todo = {} THEN Black
    ELSE LET y == CHOOSE x \in todo : TRUE
         IN  ColourSum([x \in {FracTimes(z, y) : z \in DOMAIN c} |->
                          FracTimes(c[FracTimes(x, Frac(y.den, y.num))], d[y])],
                       ColourShifted(c, d, todo \ {y}))
ColourProduct(c, d) == ColourShifted(c, d, DOMAIN d)

\* A length is a record [num, den, sq]: the number num / den * sqrt(sq), with
\* num / den in lowest terms.  Along a ray sq is the same for every length:
\* the square of the length of the ray's vector.
Root(num, den, sq) ==
    [num |-> Lowest(num, den).num, den |-> Lowest(num, den).den, sq |-> sq]

\* the length t along the axis
Along(t) == Root(t, 1, 1)

\* d > 0., d < e and d <= e of two lengths (with different roots the squares
\* are compared)
Positive(d) == d.num > 0
Shorter(d, e) ==
    IF d.sq = e.sq THEN d.num * e.den < e.num * d.den
    ELSE IF d.num >= 0 /\ e.num >= 0
    THEN d.num * d.num * d.sq * e.den * e.den
            < e.num * e.num * e.sq * d.den * d.den
    ELSE IF d.num < 0 /\ e.num < 0
    THEN d.num * d.num * d.sq * e.den * e.den
            > e.num * e.num * e.sq * d.den * d.den
    ELSE d.num < e.num
NotLonger(d, e) == ~Shorter(e, d)

\* A decimal is a record [num, den, exp]: the number num / den / 10^exp.
Dec(num, exp) == [num |-> num, den |-> 1, exp |-> exp]

\* a decimal rounded down to a whole number
RECURSIVE Whole(_)
Whole(d) ==
    IF d.exp = 0 THEN d.num \div d.den
    ELSE Whole([d EXCEPT !.num = @ \div 10, !.exp = @ - 1])

\* Ray { origin, direction } along the axis or beside it
AxisRay(origin, origin_x, origin_y, direction) ==
    [origin |-> origin, origin_x |-> origin_x, origin_y |-> origin_y,
     direction |-> direction, vector |-> <<0, 0, direction>>]

\* the shortest vector of whole numbers along v
Shortest(v) ==
    LET g == Gcd(Gcd(Abs(v[1]), Abs(v[2])), Abs(v[3]))
    IN  IF g = 0 THEN v ELSE << v[1] \div g, v[2] \div g, v[3] \div g >>

\* a ray whose direction is the vector v, times a positive number
RayAlong(origin, origin_x, origin_y, v) ==
    [origin |-> origin, origin_x |-> origin_x, origin_y |-> origin_y,
     direction |-> Sign(v[3]), vector |-> Shortest(v)]

\* the direction of the ray is NaN
NaNRay(ray) == ray.vector = <<0, 0, 0>>

\* Material (objects.rs); the fields of MaterialType are flattened, texture
\* 0 is None, refraction_index is a fraction
Reflective(albedo, roughness, texture, emission_power) ==
    [kind |-> "Reflective", ambience |-> 0, diffuse |-> 1, specular |-> 1,
     shininess |-> 5, albedo |-> albedo, texture |-> texture,
     roughness |-> roughness, transparency |-> 0,
     refraction_index |-> Over1(1),
     reflectivity |-> 0, emission_power |-> emission_power]

Refractive(albedo, transparency, refraction_index, reflectivity) ==
    [kind |-> "Refractive", ambience |-> 0, diffuse |-> 1, specular |-> 1,
     shininess |-> 5, albedo |-> albedo, texture |-> 0,
     roughness |-> 0, transparency |-> transparency,
     refraction_index |-> refraction_index,
     reflectivity |-> reflectivity, emission_power |-> 0]

\* scene.materials of a scene whose rays stay on the axis: a rough surface,
\* an emissive textured mirror, a glass of the index of the air, a glass
\* twice as dense
Palette == << Reflective(1, 1, 0, 0), Reflective(2, 0, 1, 1),
              Refractive(1, 1, Over1(1), 0), Refractive(1, 1, Over1(2), 0) >>

\* scene.materials of a scene met by rays across the axis: no material has a
\* specular term; the last glass is half as dense as the air, and reflects
\* such a ray totally
Dull == << [Reflective(1, 1, 0, 0) EXCEPT !.specular = 0],
           [Reflective(2, 0, 1, 1) EXCEPT !.specular = 0],
           [Refractive(1, 1, Over1(1), 0) EXCEPT !.specular = 0],
           [Refractive(2, 1, Frac(1, 2), 0) EXCEPT !.specular = 0] >>

\* scene.materials of a scene that jitters its reflections: no material has
\* a specular term, and the glasses have the index of the air and the
\* reflectivity 1
Matte == << [Reflective(1, 1, 0, 0) EXCEPT !.specular = 0],
            [Reflective(2, 0, 1, 1) EXCEPT !.specular = 0],
            [Refractive(1, 1, Over1(1), 1) EXCEPT !.specular = 0],
            [Refractive(2, 1, Over1(1), 1) EXCEPT !.specular = 0] >>

\* scene.textures: images of one column
Textures == << [width |-> 1, height |-> 2, texels |-> <<1, 3>>] >>

PlanePoints == {-2, 2, 4}
Planes == [kind : {"Plane"}, point : PlanePoints, normal : {1},
           max_dist : {None}, material_index : {1, 2, 3, 4}]
Directionals == [kind : {"Directional"}, direction : {-1, 1}, albedo : {1},
                 intensity : {2}]
\* A Positional light is on the axis.  Lengths are in EPSILON, so the
\* intensity of a Positional light is in units of EPSILON^2: the quotient
\* intensity / (light_dis * light_dis) is then a plain number.
Positionals == [kind : {"Positional"}, position : {-2, 0, 4}, albedo : {1},
                intensity : {16}]

SeqsUpTo(S, n) == UNION {[1..k -> S] : k \in 0..n}

\* A reflection is jittered in diffuse mode and with accumulation enabled:
\* the ray then leaves the axis.  The objects are planes across the axis.
\* The numbers of a hit that are no fractions are multiplied by 0: the power
\* of blinn_phong by the specular term of the material, with rays across the
\* axis; the power of fresnel by 1. - reflectivity, with jittered rays.  The
\* root of refraction_ray is a fraction on the axis, and across it in glass
\* of the index of the air.
Jittering(s) == s.diffuse \/ s.enable_accumulation
Scenes ==
    { s \in [objects : SeqsUpTo(Planes, MaxObjects),
             materials : {Palette, Dull, Matte},
             textures : {Textures},
             lights : SeqsUpTo(Directionals, MaxLights),
             sdfs : {<<>>},
             ambient_color : 0..MaxAmbient,
             max_ray_bounces : 0..MaxBounces,
             diffuse : BOOLEAN,
             shadow_casting : BOOLEAN,
             enable_accumulation : BOOLEAN] :
        Jittering(s) <=> s.materials = Matte }

\* Scene::default (update_func: FALSE is None)
DefaultScene ==
    [light |-> [kind |-> "Directional", direction |-> 0, intensity |-> 1],
     ambient_color |-> 0,
     objects |-> <<>>, materials |-> <<>>, textures |-> <<>>,
     diffuse |-> FALSE, max_ray_bounces |-> 0,
     max_frames_rendering |-> DefaultMaxFrames,
     shadow_casting |-> FALSE,
     enable_accumulation |-> FALSE,
     update_func |-> FALSE]

\* The Scene that ray_tracing.rs and ray_marching.rs read has the fields
\* lights and sdfs, which the Scene of scene.rs does not declare: the default
\* scene with both of them empty.
LitScene == DefaultScene @@ [lights |-> <<>>, sdfs |-> <<>>]

\* Plane.max_dist: Some(Vec2 { x, y })
MaxDist(x, y) == [some |-> TRUE, x |-> x, y |-> y]

\* scene.materials of the scenes the renderer is run on: two rough surfaces
\* that emit light
Glowing == << Reflective(2, 1, 0, 1), Reflective(1, 1, 0, 1) >>

\* scene.objects of these scenes: two bounded planes across the axis that
\* face each other, the camera between them.  The rays through the first
\* column hit the plane before the camera, the others pass beside it; of the
\* jittered reflections some hit the plane behind the camera and some pass
\* beside it.
Facing ==
    << [kind |-> "Plane", point |-> 2, normal |-> 1,
        max_dist |-> MaxDist(1, 2), material_index |-> 1],
       [kind |-> "Plane", point |-> -2, normal |-> 1,
        max_dist |-> MaxDist(1, 2), material_index |-> 2] >>

\* The scenes the renderer is run on: the default scene, and the scenes of
\* the two planes with each setting of diffuse and enable_accumulation.
\* They have no light, so that a colour is a plain number: black where
\* light() is evaluated, the emission gathered along the path in diffuse
\* mode, the ambient colour for a ray that escapes.
RenderScenes ==
    {DefaultScene} \cup
    { [LitScene EXCEPT !.objects = Facing, !.materials = Glowing,
                       !.ambient_color = MaxAmbient,
                       !.max_ray_bounces = MaxBounces,
                       !.diffuse = d, !.enable_accumulation = a] :
        d \in BOOLEAN, a \in BOOLEAN }

\* The objects trace_ray alone is applied to: planes across and along the
\* axis, at the origin of the ray and away from it, unbounded and bounded
\* to one unit about the origin; spheres around the
\* origin of the ray and away from it, on the axis, touching it from the
\* side and clear of it; triangles across the axis (around it and clear of
\* it, and one around it with edges of 3 EPSILON) and along it.  A sphere
\* is at 0 or 4 on the axis, which an f32 holds as the same multiple of its
\* radius as the reals do.
ScanPlanes == [kind : {"Plane"}, point : {0, 2}, normal : {0, 1},
               max_dist : {None, MaxDist(1, 1)}, material_index : {1}]
ScanSpheres == [kind : {"Sphere"}, position : {0, 4}, position_x : {0, 1, 2},
                radius : {1}, material_index : {1}]
Triangle(v1, v2, v3) ==
    [kind |-> "Triangle", v1 |-> v1, v2 |-> v2, v3 |-> v3, material_index |-> 1]
ScanTriangles == { Triangle(<<-10, -10, 2>>, <<20, -10, 2>>, <<-10, 20, 2>>),
                   Triangle(<<40, -10, 2>>, <<70, -10, 2>>, <<40, 20, 2>>),
                   Triangle(<<-1, -1, 2>>, <<2, -1, 2>>, <<-1, 2, 2>>),
                   Triangle(<<10, 0, 0>>, <<10, 0, 20>>, <<10, 10, 0>>) }
ScanObjects == ScanPlanes \cup ScanSpheres \cup ScanTriangles

PrimaryRays == {AxisRay(0, Over1(0), Over1(0), d) : d \in {-1, 1}}

\* primary rays across the axis, of a direction with fractions for components
SlantedRays ==
    {RayAlong(0, Over1(0), Over1(0), <<3, 0, z>>) : z \in {-4, 4}}

\* the primary rays a scene is given
PrimaryRaysOf(s) == IF s.materials = Dull THEN SlantedRays ELSE PrimaryRays
NoPrimary == [ray |-> AxisRay(0, Over1(0), Over1(0), 0), rnd |-> 0]
NoResult == [done |-> FALSE, col |-> Black, rnd |-> 0]
NoFound == [done |-> FALSE]
NoMarch == [pc |-> "idle"]
NoProbe == [fn |-> "none", done |-> FALSE]
NoApp == [ups |-> 0, hooks |-> 0]

\* ------------------------------------------------------ tracer: geometry
\* Vec3 of glam, for the vertices of a triangle
Dot3(a, b) == a[1] * b[1] + a[2] * b[2] + a[3] * b[3]
Cross3(a, b) == << a[2] * b[3] - a[3] * b[2],
                   a[3] * b[1] - a[1] * b[3],
                   a[1] * b[2] - a[2] * b[1] >>
Sub3(a, b) == << a[1] - b[1], a[2] - b[2], a[3] - b[3] >>
Add3(a, b) == << a[1] + b[1], a[2] + b[2], a[3] + b[3] >>
Scale3(a, k) == << a[1] * k, a[2] * k, a[3] * k >>

\* RayHit (ray.rs): distance is a length, point_x and point_y are
\* fractions, u and v decimals; nan lists the fields that are NaN
RayHit(distance, point, point_x, normal, normal_x, material_index, u, v) ==
    [distance |-> distance, point |-> point, point_x |-> point_x,
     point_y |-> Over1(0), normal |-> normal, normal_x |-> normal_x,
     material_index |-> material_index, u |-> u, v |-> v, nan |-> {}]

\* the RayHit an intersect makes of a ray whose direction is NaN: distance,
\* point, u and v are NaN, and the normal is unless it is given
NaNHit(material_index) ==
    [RayHit(Along(0), 0, Over1(0), 0, 0, material_index, Dec(0, 0), Dec(0, 0))
        EXCEPT !.nan = {"distance", "point", "normal", "u", "v"}]

\* hit_point.x * 0.1, hit_point.z * 0.1: a length in EPSILON, 0.0001, times
\* 0.1 is so many 0.00001
Tenth(x) == [num |-> x.num, den |-> x.den, exp |-> 5]

\* if let Some(Vec2 { x, y }) = self.max_dist: the hit is beyond the bounds
Beyond(max_dist, point, point_x) ==
    /\ max_dist.some
    /\ \/ Abs(point) > max_dist.y
       \/ Abs(point_x.num) > max_dist.x * point_x.den

\* Plane::intersect from hit_point on.  k is t over the length of the ray's
\* vector: hit_point is the origin plus the vector times k, and its
\* coordinate on the axis is a whole number, the plane's.
PlaneHit(obj, ray, denom, k) ==
    LET point == ray.origin + (ray.vector[3] * k.num) \div k.den
        x == FracSum(ray.origin_x, Lowest(ray.vector[1] * k.num, k.den))
        y == FracSum(ray.origin_y, Lowest(ray.vector[2] * k.num, k.den))
        sign == IF denom < 0 THEN 1 ELSE -1
    IN  IF Beyond(obj.max_dist, point, x) THEN None
        ELSE [some |-> TRUE,
              hit |-> [RayHit(Root(k.num, k.den,
                                   Dot3(ray.vector, ray.vector)),
                              point, x, sign * obj.normal, 0,
                              obj.material_index,
                              Tenth(x), Tenth(Over1(point)))
                         EXCEPT !.point_y = y]]

\* Plane::intersect without the test of t: a plane behind the ray is hit
intersect_behind(obj, ray) ==
    LET denom == ray.vector[3] * obj.normal
        k     == Lowest((obj.point - ray.origin) * obj.normal, denom)
    IN  IF NaNRay(ray)
        THEN [some |-> TRUE,
              hit |-> [NaNHit(obj.material_index) EXCEPT
                         !.normal = -obj.normal,
                         !.nan = @ \ {"normal"}]]
        ELSE IF denom = 0 THEN None
        ELSE PlaneHit(obj, ray, denom, k)

\* Plane::intersect (utils/plane.rs).  denom is direction.dot(normal) times
\* the length of the ray's vector: of a vector of small whole numbers
\* |direction.dot(normal)| < 1e-6 is denom = 0.  With a direction that is
\* NaN no test holds (sign is -1) and the hit is at a NaN distance.
intersect(obj, ray) ==
    LET denom == ray.vector[3] * obj.normal
        k     == Lowest((obj.point - ray.origin) * obj.normal, denom)
    IN  IF NaNRay(ray)
        THEN [some |-> TRUE,
              hit |-> [NaNHit(obj.material_index) EXCEPT
                         !.normal = -obj.normal,
                         !.nan = @ \ {"normal"}]]
        ELSE IF denom = 0 THEN None
        ELSE IF k.num < 0 THEN None
        ELSE PlaneHit(obj, ray, denom, k)

\* the ray as Vec3 origin and direction (the direction times a positive
\* number, which is 1 on a ray along the axis); a sphere or a triangle is
\* met by rays whose origin has whole coordinates
Origin3(ray) == << Floor(ray.origin_x), Floor(ray.origin_y), ray.origin >>
Direction3(ray) == ray.vector

\* f32::sqrt, rounded down to a whole unit (exact where the scenes use it)
ISqrt(n) == CHOOSE r \in 0..n : r * r <= n /\ (r + 1) * (r + 1) > n

\* (y / x).atan() * INV_PI for the quotients that have a rational result:
\* 0 / 0 is NaN (the field is listed in nan), 0 / x is 0 and y / 0 is
\* infinite, with atan a quarter turn; of another quotient the sign is kept.
AtanOverPi(y, x) ==
    IF y = 0 THEN Dec(0, 0)
    ELSE IF x = 0 THEN Dec(5 * Sign(y), 1)
    ELSE Dec(25 * Sign(y) * Sign(x), 2)

\* the hit of Sphere::intersect at the distance t1, l the point of the unit
\* sphere times radius
SphereHit(obj, ray, t1, l) ==
    [RayHit(Along(t1),
            ray.origin + ray.direction * t1,
            ray.origin_x,
            l[3] \div obj.radius,
            l[1] \div obj.radius,
            obj.material_index,
            AtanOverPi(l[2], l[1]),
            AtanOverPi(l[1] * l[1] + l[2] * l[2], obj.radius * l[3]))
       EXCEPT !.point_y = ray.origin_y,
              !.nan = IF l[1] = 0 /\ l[2] = 0 THEN {"u"} ELSE {}]

\* Sphere::intersect (utils/sphere.rs).  inv_transform moves the ray to the
\* space of the unit sphere: origin (o - position) / radius, direction
\* d / radius.  Here both are kept times radius, which multiplies a, b and c
\* by radius^2 and leaves the sign of disc and the value of t1 as they are.
\* The numbers of the hit are exact where disc is a square and the ray runs
\* along the axis, as in the scenes; elsewhere they are rounded down.  The
\* hit is then on the axis (l.x = 0) or at the side (l.z = 0) of the sphere.
\* The field u is given v * INV_PI and the field v is given u * INV_PI.
\* With a direction that is NaN disc < 0.0 does not hold and every number of
\* the hit is NaN.  Where the line of the ray touches the sphere disc is 0
\* and the sphere is hit, at the side: this is the f32 result as well for
\* the spheres trace_ray alone is applied to (see ScanSpheres), whose b * b
\* and 4 * a * c are the same f32; the scenes of the colour recursion hold
\* no sphere.
sphere_intersect(obj, ray) ==
    LET ray_dir == Direction3(ray)
        ray_origin == Sub3(Origin3(ray), << obj.position_x, 0, obj.position >>)
        a == Dot3(ray_dir, ray_dir)
        b == 2 * Dot3(ray_origin, ray_dir)
        c == Dot3(ray_origin, ray_origin) - obj.radius * obj.radius
        disc == b * b - 4 * a * c
        t1 == (ISqrt(a) * (-b - ISqrt(disc))) \div (2 * a)
        l == Add3(ray_origin, Scale3(ray_dir, t1 \div ISqrt(a)))
    IN  IF NaNRay(ray)
        THEN [some |-> TRUE, hit |-> NaNHit(obj.material_index)]
        ELSE IF disc < 0 THEN None
        ELSE [some |-> TRUE, hit |-> SphereHit(obj, ray, t1, l)]

\* the tests of the three edges at hit_point, and the hit
TriangleTests(obj, normal, denom, t, hit_point) ==
    LET edge_ab == Sub3(obj.v2, obj.v1)
        edge_bc == Sub3(obj.v3, obj.v2)
        edge_ca == Sub3(obj.v1, obj.v3)
        a_to_hit == Sub3(hit_point, obj.v1)
        b_to_hit == Sub3(hit_point, obj.v2)
        c_to_hit == Sub3(hit_point, obj.v3)
        a_n == Dot3(Cross3(edge_ab, a_to_hit), normal) > 0
        b_n == Dot3(Cross3(edge_bc, b_to_hit), normal) > 0
        c_n == Dot3(Cross3(edge_ca, c_to_hit), normal) > 0
        inside == a_n /\ b_n /\ c_n
        back_face == ~a_n /\ ~b_n /\ ~c_n
        sign == -Sign(denom)
    IN  IF inside \/ back_face
        THEN [some |-> TRUE,
              hit |-> [RayHit(Along(t), hit_point[3], Over1(hit_point[1]),
                              Sign(sign * normal[3]), Sign(sign * normal[1]),
                              obj.material_index,
                              Dec(Dot3(Cross3(edge_ab, a_to_hit), normal), 16),
                              Dec(Dot3(Cross3(edge_ca, c_to_hit), normal), 16))
                         EXCEPT !.point_y = Over1(hit_point[2])]]
        ELSE None

\* Triangle::intersect (utils/triangle.rs).  normal is the cross product of
\* two edges, not normalized, so denom is a product of two lengths in
\* EPSILON, so many 10^-8, times the length of the ray's vector: of a ray
\* along the axis |denom| < 1e-6 is |denom| < 100 here, and a triangle whose
\* edges are a few EPSILON long is hit by no ray.  The division by denom is
\* exact for a triangle across the axis.  u and v are products of four
\* lengths in EPSILON, so many 10^-16.  With a direction that is NaN no test
\* holds: the hit is a back face, and every number of it is NaN.
triangle_intersect(obj, ray) ==
    LET edge_ab == Sub3(obj.v2, obj.v1)
        edge_ac == Sub3(obj.v3, obj.v1)
        normal == Cross3(edge_ab, edge_ac)
        denom == Dot3(Direction3(ray), normal)
        t == Dot3(Sub3(obj.v1, Origin3(ray)), normal) \div denom
        hit_point == Add3(Origin3(ray), Scale3(Direction3(ray), t))
    IN  IF NaNRay(ray)
        THEN [some |-> TRUE, hit |-> NaNHit(obj.material_index)]
        ELSE IF denom * denom
                  < 10000 * Dot3(Direction3(ray), Direction3(ray)) THEN None
        ELSE TriangleTests(obj, normal, denom, t, hit_point)

\* Ray::hit with the object alone (its source is not in the repository):
\* the intersect of the object's kind
ray_hit(obj, ray) ==
    IF obj.kind = "Sphere" THEN sphere_intersect(obj, ray)
    ELSE IF obj.kind = "Triangle" THEN triangle_intersect(obj, ray)
    ELSE intersect(obj, ray)

\* t.distance > 0. && t.distance < closest_t: no comparison holds of a NaN
Nearer(hit, closest_hit) ==
    /\ "distance" \notin hit.nan
    /\ Positive(hit.distance)
    /\ (closest_hit.some => Shorter(hit.distance, closest_hit.hit.distance))

\* if let Some(t) = ray.hit(&obj) { if .. { closest_hit = Some((t, idx)) } }
Closest(closest_hit, t, idx) ==
    IF t.some /\ Nearer(t.hit, closest_hit)
    THEN [some |-> TRUE, hit |-> t.hit, idx |-> idx]
    ELSE closest_hit

RECURSIVE TraceLoopLastWins(_, _)
RECURSIVE TraceLoop(_, _)
\* the scan with <= for <: of the objects at the smallest distance the last
TraceLoopLastWins(ray, k) ==
    IF k = 0 THEN None
    ELSE LET closest_hit == TraceLoopLastWins(ray, k - 1)
             t == ray_hit(scene.objects[k], ray)
         IN  IF /\ t.some
                /\ "distance" \notin t.hit.nan
                /\ Positive(t.hit.distance)
                /\ (closest_hit.some =>
                      NotLonger(t.hit.distance, closest_hit.hit.distance))
             THEN [some |-> TRUE, hit |-> t.hit, idx |-> k]
             ELSE closest_hit

\* RayTracing::trace_ray: the loop over scene.objects, objects 1..k done.
\* closest_t starts at f32::MAX: the first hit with distance > 0 is taken.
TraceLoop(ray, k) ==
    IF k = 0 THEN None
    ELSE Closest(TraceLoop(ray, k - 1), ray_hit(scene.objects[k], ray), k)

trace_ray(ray) ==
    IF scene.objects = <<>> THEN None ELSE TraceLoop(ray, Len(scene.objects))

\* Ray::reflect_vec, of Vec3
reflect(vec, normal) == Sub3(vec, Scale3(normal, 2 * Dot3(vec, normal)))

\* rand gen_range(lo..hi) of one draw, lo and hi in quarters
GenRange(raw, lo, hi) == lo + (raw * (hi - lo)) \div RngMod

\* vec3(rnd.gen_range(lo..hi), rnd.gen_range(lo..hi), rnd.gen_range(lo..hi)),
\* in quarters: three draws, x first
GenVec3(rnd, lo, hi) ==
    << GenRange(RngDraw(rnd), lo, hi),
       GenRange(RngDraw(RngAfter(rnd, 1)), lo, hi),
       GenRange(RngDraw(RngAfter(rnd, 2)), lo, hi) >>

\* hit.normal as Vec3
Normal3(hit) == << hit.normal_x, 0, hit.normal >>

\* reflect_vec(vec, normal) with the normal in quarters: the result is in
\* sixteenths
Reflect16(vec, n4) == Sub3(Scale3(vec, 16), Scale3(n4, 2 * Dot3(vec, n4)))

\* the reflection is jittered whether or not accumulation is enabled
reflection_ray_jittered(ray, hit, roughness, rnd, diffuse, accumulation) ==
    LET factor == Scale3(GenVec3(rnd, -2, 2), roughness)
        n4 == Add3(Scale3(Normal3(hit), 4), factor)
        dir == IF ~diffuse
               THEN Reflect16(ray.vector, n4)
               ELSE Add3(Scale3(Normal3(hit), 4), GenVec3(rnd, -4, 4))
    IN  [ray |-> RayAlong(hit.point + hit.normal,
                          FracPlus(hit.point_x, hit.normal_x),
                          hit.point_y, dir),
         rnd |-> RngAfter(rnd, 3),
         draws |-> 3]

\* Ray::reflection_ray.  Each vec3 of random numbers takes three draws.  The
\* jittered normal is in quarters, so that reflect() about it is in
\* sixteenths; normalize() is left undone (see vector).  The field draws is
\* the number of calls of gen_range the call made; rnd is the generator
\* after them.
reflection_ray(ray, hit, roughness, rnd, diffuse, accumulation) ==
    LET factor == IF accumulation
                  THEN Scale3(GenVec3(rnd, -2, 2), roughness)
                  ELSE <<0, 0, 0>>
        n4 == Add3(Scale3(Normal3(hit), 4), factor)
        dir == IF ~diffuse
               THEN Reflect16(ray.vector, n4)
               ELSE Add3(Scale3(Normal3(hit), 4), GenVec3(rnd, -4, 4))
    IN  [ray |-> RayAlong(hit.point + hit.normal,
                          FracPlus(hit.point_x, hit.normal_x),
                          hit.point_y, dir),
         rnd |-> IF ~diffuse /\ ~accumulation THEN rnd
                 ELSE RngAfter(rnd, 3),
         draws |-> IF ~diffuse /\ ~accumulation THEN 0 ELSE 3]

\* Ray::refraction_ray, eta and k.  c1 is |v.n| over the length of the ray's
\* vector v; eta is a fraction en / ed, and k, 1. - eta * eta * (1. - c1 * c1),
\* is the number here over ed * ed * v.v.
RefractionEta(ray, hit, refraction_index) ==
    IF Dot3(ray.vector, Normal3(hit)) < 0
    THEN Frac(refraction_index.den, refraction_index.num)
    ELSE refraction_index
RefractionK(ray, hit, refraction_index) ==
    LET eta == RefractionEta(ray, hit, refraction_index)
        vv == Dot3(ray.vector, ray.vector)
        vn == Dot3(ray.vector, Normal3(hit))
    IN  eta.den * eta.den * vv - eta.num * eta.num * (vv - vn * vn)

\* Ray::refraction_ray without the test of k: the ray goes straight on
refraction_ray_through(ray, hit, refraction_index) ==
    [some |-> TRUE,
     ray |-> RayAlong(hit.point + ray.direction,
                      FracPlus(hit.point_x, -hit.normal_x),
                      hit.point_y, ray.vector)]

\* Ray::refraction_ray.  The direction, times ed and the length of v, is
\* en * v + normal * (en * |v.n| - sqrt(k)), with the k of RefractionK: the
\* root is a whole number of a ray along the axis (ed), and of any ray in
\* glass of the index of the air (|v.n|).  normalize() is left undone (see
\* vector).
refraction_ray(ray, hit, refraction_index) ==
    LET vn == Dot3(ray.vector, Normal3(hit))
        normal == IF vn < 0 THEN Normal3(hit) ELSE Scale3(Normal3(hit), -1)
        eta == RefractionEta(ray, hit, refraction_index)
        k == RefractionK(ray, hit, refraction_index)
    IN  IF k < 0 THEN None
        ELSE [some |-> TRUE,
              ray |-> RayAlong(hit.point - normal[3],
                               FracPlus(hit.point_x, -normal[1]),
                               hit.point_y,
                               Add3(Scale3(ray.vector, eta.num),
                                    Scale3(normal,
                                           eta.num * Abs(vn) - ISqrt(k))))]

\* Material::fresnel, from cos_x on: r0 + (1. - r0) * x^5 with x = 1. - cos_x,
\* then the adjustment for the reflectivity
Schlick(r0, cos_x, reflectivity) ==
    LET x == FracSum(Over1(1), FracTimes(Over1(-1), cos_x))
        x5 == FracTimes(FracTimes(FracTimes(x, x), FracTimes(x, x)), x)
        ret == FracSum(r0, FracTimes(FracSum(Over1(1),
                                             FracTimes(Over1(-1), r0)), x5))
    IN  FracSum(Over1(reflectivity),
                FracTimes(Over1(1 - reflectivity), ret))

\* Material::fresnel of the vector of the incident ray and the normal, as a
\* fraction; the refraction_index is a fraction above 0.  n1 is 1.  cos_x is
\* -v.n over the length of v, a fraction where v.v is a square, as it is of
\* the rays that meet glass of a reflectivity below 1.  With n1 > n2, sin_t2
\* is nd * nd * (v.v - v.n * v.n) over nn * nn * v.v, and above 1. the
\* result is 1.
fresnel(incident, normal, refraction_index, reflectivity) ==
    LET nn == refraction_index.num
        nd == refraction_index.den
        r0 == Lowest((nd - nn) * (nd - nn), (nd + nn) * (nd + nn))
        vv == Dot3(incident, incident)
        vn == Dot3(incident, normal)
        within == nn * nn * vv - nd * nd * (vv - vn * vn)
    IN  IF nd > nn /\ within < 0 THEN Over1(1)
        ELSE IF nd > nn
        THEN Schlick(r0, Lowest(ISqrt(within), nn * ISqrt(vv)), reflectivity)
        ELSE Schlick(r0, Lowest(-vn, ISqrt(vv)), reflectivity)

\* Texture lookup: u and v wrap around into the image
from_uv(tex, u, v) ==
    LET x == Whole([u EXCEPT !.num = tex.width * @]) % tex.width
        y == Whole([v EXCEPT !.num = tex.height * @]) % tex.height
    IN  tex.texels[y * tex.width + x + 1]

\* ------------------------------------------------------ tracer: lighting
\* LightSource::direction: the direction of a Directional light, or
\* (point - position).normalize() (NaN, 0 here, at the light itself)
light_direction(l, point) ==
    IF l.kind = "Positional" THEN Sign(point - l.position) ELSE l.direction

\* LightSource::distance: 1. for a Directional light (a plain number), or
\* (point - position).length() (in EPSILON)
light_distance(l, point) ==
    IF l.kind = "Positional" THEN Abs(point - l.position) ELSE 1

\* the direction of the light is NaN: normalize() of the zero vector
LightNaN(l, point) == l.kind = "Positional" /\ point = l.position

\* Ray::blinn_phong.  The direction of a light is along the axis, so coeff
\* is a whole number whatever the ray.  Of a ray along the axis half_angle
\* is a unit vector along it or NaN (0 here); f32::max of NaN and 0 is 0, and
\* powf(shininess) keeps 0 and 1.  Of a ray off the axis the power is no
\* rational number: such a ray meets materials whose specular is 0, and the
\* product with it is 0.
blinn_phong(ray, hit, l, color, material) ==
    LET coeff == hit.normal * (-light_direction(l, hit.point))
        ambience == material.ambience * color
        diffuse == material.diffuse * Max(coeff, 0) * color
        half_angle == IF LightNaN(l, hit.point) THEN 0
                      ELSE Sign(-ray.direction
                                  - light_direction(l, hit.point))
        shininess == Max(hit.normal * half_angle, 0)
        specular == material.specular * shininess * color
    IN  ambience + diffuse + specular

\* l_acc.powf(0.4166) of a fraction that is not below 0: the colour that is
\* this power and no other
Gamma(x) == IF x.num = 0 THEN Black ELSE [y \in {Lowest(x.num, x.den)} |-> Over1(1)]

\* RayTracing::light, first loop: lights 1..k done, l_acc as a fraction.  At
\* a Positional light itself light_dis is 0 and the quotient is infinite or
\* NaN, which no colour here stands for: no hit of the scenes is at a light.
RECURSIVE LightSum(_, _, _, _, _)
LightSum(ray, hit, albedo, material, k) ==
    IF k = 0 THEN Over1(0)
    ELSE FracSum(LightSum(ray, hit, albedo, material, k - 1),
                 Lowest(blinn_phong(ray, hit, scene.lights[k], albedo, material)
                          * scene.lights[k].albedo * scene.lights[k].intensity,
                        light_distance(scene.lights[k], hit.point)
                          * light_distance(scene.lights[k], hit.point)))

\* the shadow ray cast from the hit towards the light l
ShadowRay(hit, l) ==
    AxisRay(hit.point + hit.normal, FracPlus(hit.point_x, hit.normal_x),
            hit.point_y, -light_direction(l, hit.point))

\* if let Some((hit, idx)) = self.trace_ray(..) { if idx != obj_index
InShadow(hit, obj_index, l) ==
    LET s == trace_ray(ShadowRay(hit, l))
    IN  s.some /\ s.idx # obj_index

\* RayTracing::light, second loop: the shadow rays of lights 1..k cast
RECURSIVE Shadowed(_, _, _, _)
Shadowed(l_acc, hit, obj_index, k) ==
    IF k = 0 THEN l_acc
    ELSE LET before == Shadowed(l_acc, hit, obj_index, k - 1)
         IN  IF InShadow(hit, obj_index, scene.lights[k])
             THEN FracTimes(before, Frac(1, 2))
             ELSE before

light(ray, hit, albedo, material, obj_index) ==
    LET l_acc == LightSum(ray, hit, albedo, material, Len(scene.lights))
    IN  Gamma(IF scene.shadow_casting
              THEN Shadowed(l_acc, hit, obj_index, Len(scene.lights))
              ELSE l_acc)

\* --------------------------------------------------- tracer: the recursion
\* the ray escaped to the background, with no light at all
EscapedUnlit(light_color, contribution) == light_color

\* color, color_diffuse: the ray escaped to the background
Escaped(light_color, contribution) ==
    ColourSum(light_color, Grey(Over1(scene.ambient_color * contribution)))

\* light_color + material.emission_power * albedo
Emitting(light_color, material, albedo) ==
    ColourSum(light_color, Grey(Over1(material.emission_power * albedo)))

\* the albedo of a Reflective hit
HitAlbedo(material, hit) ==
    IF material.texture # 0
    THEN from_uv(scene.textures[material.texture], hit.u, hit.v)
    ELSE material.albedo

\* What one call of color or color_diffuse did, the calls it made included:
\* the calls and the greatest depth of a call; the rays given to trace_ray by
\* the recursion and the greatest depth of such a call; the evaluations of
\* light() and the shadow rays they cast; the Refractive hits, the mirror
\* recursions and the refraction rays traced at them, and those of them at
\* which refraction_ray returned none; the calls of gen_range that its calls
\* of reflection_ray made.
NoLog == [calls |-> 0, depth |-> -1, rays |-> 0, deepest |-> -1,
          lights |-> 0, shadows |-> 0,
          refractive |-> 0, mirrored |-> 0, refracted |-> 0, tir |-> 0,
          draws |-> 0]

LogJoin(a, b) ==
    [calls |-> a.calls + b.calls, depth |-> Max(a.depth, b.depth),
     rays |-> a.rays + b.rays, deepest |-> Max(a.deepest, b.deepest),
     lights |-> a.lights + b.lights, shadows |-> a.shadows + b.shadows,
     refractive |-> a.refractive + b.refractive,
     mirrored |-> a.mirrored + b.mirrored,
     refracted |-> a.refracted + b.refracted,
     tir |-> a.tir + b.tir,
     draws |-> a.draws + b.draws]

\* a call entered at depth; it gave its ray to trace_ray; it evaluated light()
Entered(depth) == [NoLog EXCEPT !.calls = 1, !.depth = depth]
Traced(depth) == [Entered(depth) EXCEPT !.rays = 1, !.deepest = depth]
Lit(log) ==
    [log EXCEPT !.lights = 1,
                !.shadows = IF scene.shadow_casting THEN Len(scene.lights)
                            ELSE 0]
\* the hit of the call is on a Refractive material
AtGlass(log) == [log EXCEPT !.refractive = 1]
\* what a recursion through the refraction ray returned; what a recursion
\* through the mirror ray returned
Refracted(c) == [c EXCEPT !.log.refracted = @ + 1]
Mirrored(c) == [c EXCEPT !.log.mirrored = @ + 1]
\* what a recursion through the ray r of reflection_ray returned
Reflected(c, r) == [c EXCEPT !.log.draws = @ + r.draws]

\* the bounce limit is one bounce further
AtLimitOneLate(depth) == depth > scene.max_ray_bounces

\* color, color_diffuse: depth >= self.scene.max_ray_bounces
AtLimit(depth) == depth >= scene.max_ray_bounces

\* Each step of color and color_diffuse is an operator of its own, and takes
\* what the steps before it computed as arguments.
RECURSIVE color(_, _, _, _, _)
RECURSIVE color_diffuse(_, _, _, _, _)

\* the ray of the mirror reflection at a Refractive hit
MirrorRay(ray, hit) ==
    RayAlong(hit.point + hit.normal, FracPlus(hit.point_x, hit.normal_x),
             hit.point_y, reflect(ray.vector, Normal3(hit)))

\* refraction_color: zero, or color of the refraction ray if there is one
\* (color_diffuse calls color for it as well)
Refraction(rr, rnd, depth, light_color, contribution) ==
    IF rr.some
    THEN Refracted(color(rr.ray, rnd, depth + 1, light_color, contribution))
    ELSE [col |-> Black, rnd |-> rnd, log |-> [NoLog EXCEPT !.tir = 1]]

\* reflection_color * kr + refraction_color * (1. - kr) * transparency
RefractiveSum(kr, transparency, refraction, reflection, log) ==
    [col |-> ColourSum(ColourTimes(reflection.col, kr),
                       ColourTimes(refraction.col,
                                   FracTimes(FracSum(Over1(1),
                                                     FracTimes(Over1(-1), kr)),
                                             Over1(transparency)))),
     rnd |-> reflection.rnd,
     log |-> LogJoin(LogJoin(log, refraction.log), reflection.log)]

\* ... * albedo
Tinted(c, albedo) == [c EXCEPT !.col = ColourTimes(@, Over1(albedo))]

\* color, Refractive branch: the mirror recursion follows the refraction
ColorRefracted(ray, depth, contribution, hit, idx, material, refraction) ==
    Tinted(RefractiveSum(
               fresnel(ray.vector, Normal3(hit),
                       material.refraction_index, material.reflectivity),
               material.transparency,
               refraction,
               Mirrored(color(MirrorRay(ray, hit), refraction.rnd, depth + 1,
                              light(ray, hit, material.albedo, material, idx),
                              contribution * material.albedo)),
               AtGlass(Lit(Traced(depth)))),
           material.albedo)

ColorRefractive(ray, rnd, depth, light_color, contribution, hit, idx, material, rr) ==
    ColorRefracted(ray, depth, contribution, hit, idx, material,
                   Refraction(rr, rnd, depth, light_color,
                              contribution * material.albedo))

\* color, Reflective branch: p_light * roughness
\*                           + p_light * reflected_col * (1. - roughness)
ColorReflected(depth, contribution, roughness, p_light, reflected) ==
    [col |-> ColourSum(ColourTimes(p_light, Over1(roughness)),
                       ColourTimes(ColourProduct(p_light, reflected.col),
                                   Over1(1 - roughness))),
     rnd |-> reflected.rnd,
     log |-> LogJoin(Lit(Traced(depth)), reflected.log)]

ColorBounce(depth, contribution, roughness, p_light, r) ==
    ColorReflected(depth, contribution, roughness, p_light,
                   Reflected(color(r.ray, r.rnd, depth + 1, p_light,
                                   contribution), r))

ColorReflective(ray, rnd, depth, contribution, hit, idx, material, albedo) ==
    ColorBounce(depth, contribution * albedo, material.roughness,
                light(ray, hit, albedo, material, idx),
                reflection_ray(ray, hit, material.roughness, rnd,
                               scene.diffuse, scene.enable_accumulation))

\* color: match material.kind
ColorHit(ray, rnd, depth, light_color, contribution, hit, idx, material) ==
    IF material.kind = "Reflective"
    THEN ColorReflective(ray, rnd, depth, contribution, hit, idx, material,
                         HitAlbedo(material, hit))
    ELSE ColorRefractive(ray, rnd, depth, light_color, contribution, hit, idx,
                         material,
                         refraction_ray(ray, hit, material.refraction_index))

\* color: if let Some((hit, obj_index)) = self.trace_ray(ray)
ColorTraced(ray, rnd, depth, light_color, contribution, t) ==
    IF ~t.some
    THEN [col |-> Escaped(light_color, contribution), rnd |-> rnd,
          log |-> Traced(depth)]
    ELSE ColorHit(ray, rnd, depth, light_color, contribution, t.hit, t.idx,
                  scene.materials[t.hit.material_index])

\* RayTracing::color
color(ray, rnd, depth, light_color, contribution) ==
    IF AtLimit(depth)
    THEN [col |-> light_color, rnd |-> rnd, log |-> Entered(depth)]
    ELSE ColorTraced(ray, rnd, depth, light_color, contribution,
                     trace_ray(ray))

\* color_diffuse, Refractive branch: p_light is light_color plus the
\* emission; the sum is not multiplied by the albedo
DiffuseRefracted(ray, depth, light_color, contribution, hit, material, refraction) ==
    RefractiveSum(
        fresnel(ray.vector, Normal3(hit),
                material.refraction_index, material.reflectivity),
        material.transparency,
        refraction,
        Mirrored(color_diffuse(MirrorRay(ray, hit), refraction.rnd, depth + 1,
                               Emitting(light_color, material, material.albedo),
                               contribution * material.albedo)),
        AtGlass(Traced(depth)))

DiffuseRefractive(ray, rnd, depth, light_color, contribution, hit, material, rr) ==
    DiffuseRefracted(ray, depth, light_color, contribution, hit, material,
                     Refraction(rr, rnd, depth, light_color,
                                contribution * material.albedo))

\* color_diffuse, Reflective branch: the colour of the reflected ray
DiffuseReflected(depth, reflected) ==
    [col |-> reflected.col,
     rnd |-> reflected.rnd,
     log |-> LogJoin(Traced(depth), reflected.log)]

DiffuseBounce(depth, contribution, p_light, r) ==
    DiffuseReflected(depth,
                     Reflected(color_diffuse(r.ray, r.rnd, depth + 1, p_light,
                                             contribution), r))

DiffuseReflective(ray, rnd, depth, light_color, contribution, hit, material, albedo) ==
    DiffuseBounce(depth, contribution * albedo,
                  Emitting(light_color, material, albedo),
                  reflection_ray(ray, hit, material.roughness, rnd,
                                 scene.diffuse, scene.enable_accumulation))

\* color_diffuse: match material.kind
DiffuseHit(ray, rnd, depth, light_color, contribution, hit, material) ==
    IF material.kind = "Reflective"
    THEN DiffuseReflective(ray, rnd, depth, light_color, contribution, hit,
                           material, HitAlbedo(material, hit))
    ELSE DiffuseRefractive(ray, rnd, depth, light_color, contribution, hit,
                           material,
                           refraction_ray(ray, hit, material.refraction_index))

\* color_diffuse: if let Some((hit, obj_index)) = self.trace_ray(ray)
DiffuseTraced(ray, rnd, depth, light_color, contribution, t) ==
    IF ~t.some
    THEN [col |-> Escaped(light_color, contribution), rnd |-> rnd,
          log |-> Traced(depth)]
    ELSE DiffuseHit(ray, rnd, depth, light_color, contribution, t.hit,
                    scene.materials[t.hit.material_index])

\* RayTracing::color_diffuse
color_diffuse(ray, rnd, depth, light_color, contribution) ==
    IF AtLimit(depth)
    THEN [col |-> light_color, rnd |-> rnd, log |-> Entered(depth)]
    ELSE DiffuseTraced(ray, rnd, depth, light_color, contribution,
                       trace_ray(ray))

\* RayTracing::albedo
albedo(ray, rnd) ==
    IF scene.diffuse
    THEN color_diffuse(ray, rnd, 0, Black, 1)
    ELSE color(ray, rnd, 0, Black, 1)

\* ---------------------------------------------------------- renderer state
Zeros(n) == [i \in 1..n |-> 0]
NoCall == [kind |-> "none", updated |-> FALSE, fi |-> 0, result |-> "none",
           dropped |-> FALSE]
NoShade == [ray |-> -1, acc |-> -1, draw |-> -1]

\* Renderer::new, then App::run up to the loop: the camera takes the size of
\* the window and img is allocated for it.
RendererNew(s, g) ==
    /\ accumulated = <<>>
    /\ enable_accumulation = FALSE
    /\ max_frames_rendering = DefaultMaxFrames
    /\ frame_index = 1
    /\ camera = [width |-> s[1], height |-> s[2]]
    /\ img = Zeros(4 * s[1] * s[2])
    /\ pc = "new"
    /\ chunks = <<>>
    /\ tile_count = 0
    /\ rng = g
    /\ call = NoCall
    /\ shade_log = <<>>
    /\ rng_dirty = [w \in Workers |-> FALSE]
    /\ acc_rays = <<>>
    /\ shaded_frames = 0

Init ==
    /\ \E s \in Sizes, g \in [Workers -> 0..(RngMod - 1)] : RendererNew(s, g)
    /\ scene \in RenderScenes
    /\ primary = NoPrimary
    /\ traced = NoResult
    /\ found = NoFound
    /\ march = NoMarch
    /\ probe = NoProbe
    /\ app = NoApp

\* ------------------------------------------------- Renderer::render, entry
\* (variant for C6: the reset forgets frame_index)
UpdatedResetKeepingFrame(acc, fi, cam, updated) ==
    IF updated
    THEN [accumulated |-> [i \in 1..(cam.width * cam.height) |-> Vec4Zero],
          frame_index |-> fi]
    ELSE [accumulated |-> acc, frame_index |-> fi]

\* if updated { accumulated = vec![ZERO; w*h]; frame_index = 1 }
UpdatedReset(acc, fi, cam, updated) ==
    IF updated
    THEN [accumulated |-> [i \in 1..(cam.width * cam.height) |-> Vec4Zero],
          frame_index |-> 1]
    ELSE [accumulated |-> acc, frame_index |-> fi]

\* (variant for C30: the frame limit is tested one frame late)
EarlyExitPastLimit(fi, max_frames, enable) ==
    fi > max_frames + 1 \/ (fi > 1 /\ ~enable)

\* the condition of the early `return Ok(())`
EarlyExit(fi, max_frames, enable) ==
    fi > max_frames \/ (fi > 1 /\ ~enable)

\* let img_chunk_size = (img_len / (num_chunks * 4)) * 4
ImgChunkSize(img_len, num_chunks) == (img_len \div (num_chunks * 4)) * 4

\* img.chunks_mut(size).enumerate(): slices of `size` bytes, the last one
\* shorter when size does not divide the length (size > 0)
ChunksMut(img_len, size) ==
    [k \in 1..((img_len + size - 1) \div size) |->
        [start   |-> (k - 1) * size,
         buf_len |-> Min(size, img_len - (k - 1) * size)]]

\* the chunk task not yet picked up by a worker
PendingTask(e) ==
    [start |-> e.start, buf_len |-> e.buf_len, st |-> "pending", rnd |-> 0,
     s_accumulated |-> <<>>, s_rays |-> <<>>, s_enable_accumulation |-> FALSE,
     s_frame_index |-> 0, size |-> 0, pixel_offset |-> 0, pos |-> 0]

\* ------------------------------------------------ App::run, one iteration
\* A SizeChanged/Resized event reallocates img (zeroed) for the new size; the
\* camera is resized, and `updated` set, before the render call of the same
\* iteration.  NoResize: no such event was polled in this iteration.
NoResize == <<0, 0>>

CameraAfter(s) ==
    IF s = NoResize THEN camera ELSE [width |-> s[1], height |-> s[2]]

ImgAfter(s) == IF s = NoResize THEN img ELSE Zeros(4 * s[1] * s[2])

\* the arguments of the render call of one iteration: `updated` is true in
\* the first iteration and after a resize, and may be true for camera motion
\* or a scene update; scene_diffuse is the field `diffuse` of the scene passed
RenderInput(s, updated, num_chunks, scene_diffuse) ==
    /\ pc \in {"new", "idle"}
    /\ s \in Sizes \cup {NoResize}
    /\ updated \in BOOLEAN
    /\ scene_diffuse \in BOOLEAN
    /\ (pc = "new" \/ s # NoResize) => updated
    /\ num_chunks \in 1..MaxTiles

\* history of a call: its reset dropped two or more accumulated frames of
\* another resolution
DroppedFrames(s, updated) ==
    /\ updated
    /\ enable_accumulation
    /\ shaded_frames >= 2
    /\ frame_index > 2
    /\ Len(accumulated) > 0
    /\ Len(accumulated) # CameraAfter(s).width * CameraAfter(s).height

\* render returns early: nothing but the updated reset happens
RenderReturn(s, updated, num_chunks, scene_diffuse) ==
    /\ RenderInput(s, updated, num_chunks, scene_diffuse)
    /\ LET r == UpdatedReset(accumulated, frame_index, CameraAfter(s), updated)
       IN
       /\ EarlyExit(r.frame_index, max_frames_rendering, enable_accumulation)
       /\ accumulated' = r.accumulated
       /\ frame_index' = r.frame_index
       /\ acc_rays' = IF updated THEN [i \in 1..Len(r.accumulated) |-> <<>>]
                                 ELSE acc_rays
       /\ shaded_frames' = IF updated THEN 0 ELSE shaded_frames
       /\ call' = [kind |-> "exit", updated |-> updated, fi |-> r.frame_index,
                   result |-> "ok", diffuse |-> scene_diffuse,
                   dropped |-> DroppedFrames(s, updated)]
    /\ pc' = "idle"
    /\ camera' = CameraAfter(s)
    /\ img' = ImgAfter(s)
    /\ UNCHANGED <<enable_accumulation, max_frames_rendering, chunks,
                   tile_count, rng, shade_log, rng_dirty>>

\* render shades but chunks_mut(0) panics ("chunk size must be non-zero")
RenderPanic(s, updated, num_chunks, scene_diffuse) ==
    /\ RenderInput(s, updated, num_chunks, scene_diffuse)
    /\ LET r == UpdatedReset(accumulated, frame_index, CameraAfter(s), updated)
       IN
       /\ ~EarlyExit(r.frame_index, max_frames_rendering, enable_accumulation)
       /\ r.frame_index <= MaxShaded
       /\ ImgChunkSize(Len(ImgAfter(s)), num_chunks) = 0
       /\ accumulated' = r.accumulated
       /\ frame_index' = r.frame_index
       /\ acc_rays' = IF updated THEN [i \in 1..Len(r.accumulated) |-> <<>>]
                                 ELSE acc_rays
       /\ shaded_frames' = IF updated THEN 0 ELSE shaded_frames
       /\ call' = [kind |-> "shade", updated |-> updated, fi |-> r.frame_index,
                   result |-> "panic", dropped |-> DroppedFrames(s, updated)]
    /\ pc' = "panic"
    /\ camera' = CameraAfter(s)
    /\ img' = ImgAfter(s)
    /\ UNCHANGED <<enable_accumulation, max_frames_rendering, chunks,
                   tile_count, rng, shade_log, rng_dirty>>

\* render shades: the chunks are handed to the pool
RenderDispatch(s, updated, num_chunks, scene_diffuse) ==
    /\ RenderInput(s, updated, num_chunks, scene_diffuse)
    /\ LET r == UpdatedReset(accumulated, frame_index, CameraAfter(s), updated)
           img_len == Len(ImgAfter(s))
           size == ImgChunkSize(img_len, num_chunks) IN
       /\ ~EarlyExit(r.frame_index, max_frames_rendering, enable_accumulation)
       /\ r.frame_index <= MaxShaded
       /\ size > 0
       /\ accumulated' = r.accumulated
       /\ frame_index' = r.frame_index
       /\ acc_rays' = IF updated THEN [i \in 1..Len(r.accumulated) |-> <<>>]
                                 ELSE acc_rays
       /\ shaded_frames' = IF updated THEN 0 ELSE shaded_frames
       /\ chunks' = [k \in DOMAIN ChunksMut(img_len, size) |->
                        PendingTask(ChunksMut(img_len, size)[k])]
       /\ call' = [kind |-> "shade", updated |-> updated, fi |-> r.frame_index,
                   result |-> "none", dropped |-> DroppedFrames(s, updated)]
       /\ shade_log' = [i \in 1..(img_len \div 4) |-> NoShade]
    /\ pc' = "par"
    /\ camera' = CameraAfter(s)
    /\ img' = ImgAfter(s)
    /\ rng_dirty' = [w \in Workers |-> FALSE]
    /\ tile_count' = num_chunks
    /\ UNCHANGED <<enable_accumulation, max_frames_rendering, rng>>

\* ------------------------------------------ the chunk task (the map closure)
\* let offset = e.0 * acc_size   (e.0 is the chunk's index, from 0)
ChunkOffset(index, acc_size) == index * acc_size

\* a worker thread runs one closure at a time
WorkerFree(w) == \A k \in DOMAIN chunks :
                    ~(chunks[k].st = "running" /\ chunks[k].rnd = w)

\* the closure up to the call of render_chunk: rand::thread_rng() hands out
\* the generator of the thread that runs the closure; the private Renderer
\* `s` copies the slice accumulated[offset..offset+acc_size]
TaskStart(w, k) ==
    /\ UNCHANGED <<tvars, mvars>>
    /\ pc = "par"
    /\ k \in DOMAIN chunks
    /\ chunks[k].st = "pending"
    /\ WorkerFree(w)
    /\ LET acc_size == chunks[k].buf_len \div 4
           offset   == ChunkOffset(k - 1, acc_size) IN
       IF offset + acc_size <= Len(accumulated)
       THEN /\ chunks' = [chunks EXCEPT ![k] =
                   [@ EXCEPT !.st = "running", !.rnd = w,
                      !.s_accumulated =
                          SubSeq(accumulated, offset + 1, offset + acc_size),
                      !.s_rays =
                          SubSeq(acc_rays, offset + 1, offset + acc_size),
                      !.s_enable_accumulation = enable_accumulation,
                      !.s_frame_index = frame_index,
                      !.size = acc_size, !.pixel_offset = offset, !.pos = 0]]
            /\ UNCHANGED <<pc, call>>
       ELSE /\ pc' = "panic"
            /\ call' = [call EXCEPT !.result = "panic"]
            /\ UNCHANGED chunks
    /\ UNCHANGED <<accumulated, enable_accumulation, max_frames_rendering,
                   frame_index, camera, img, tile_count, rng,
                   shade_log, rng_dirty, acc_rays, shaded_frames>>

\* the body of the loop of render_chunk for one pixel: the new private
\* accumulator and the colour written
RenderPixel(acc, p, enable, fi) ==
    IF enable
    THEN [acc   |-> Vec4Add(acc, p),
          color |-> to_rgba(Vec4Clamp(Vec4Div(Vec4Add(acc, p), fi)))]
    ELSE [acc   |-> Vec4Clamp(p),
          color |-> to_rgba(Vec4Clamp(p))]

\* Ray { origin: camera.position, direction: ray_dir }: the camera is at the
\* origin and looks along the axis, and its projection is such that the
\* direction through pixel (x, y) is <<3 * x, 3 * y, 4>> times a positive
\* number (normalize() is left undone, see vector)
PixelRay(ray_dir) ==
    RayAlong(0, Over1(0), Over1(0), <<3 * ray_dir.x, 3 * ray_dir.y, 4>>)

\* a channel of a colour in units of 1/Quantum.  The scenes the renderer is
\* run on have no light, so that a colour is a plain number.
Channel(col) ==
    (Quantum * Coef(col, Over1(1)).num) \div Coef(col, Over1(1)).den

\* vec4(light.x, light.y, light.z, 1.) of the colour that albedo returned,
\* with the generator as albedo left it and the calls of gen_range it made
Sampled(a) ==
    [p |-> Vec4(Channel(a.col), 1), rnd |-> a.rnd, draws |-> a.log.draws]

\* scene.pixel(Ray{origin: camera.position, direction}, rnd), with the
\* generator in state g at the call: p is the sample of one primary ray, rnd
\* the generator after the call, draws the calls of gen_range that the call
\* made.
ScenePixel(ray_dir, g) == Sampled(albedo(PixelRay(ray_dir), g))

\* The calls of gen_range that one call of scene.pixel makes: three at each
\* reflection_ray of the path when the scene is diffuse or accumulates, none
\* otherwise, and none for a ray that hits nothing or is not traced.
PixelDraws(ray_dir, g) == ScenePixel(ray_dir, g).draws

\* render_chunk, the iteration `pos` from the sample s on: the new private
\* accumulator and the colour written, with the index into
\* camera.ray_directions and the generator's state r at the call of
\* scene.pixel and after it
ChunkSample(c, r, pos, s) ==
    [idx |-> pos + c.pixel_offset, draw |-> r, rnd |-> s.rnd,
     draws |-> s.draws]
      @@ RenderPixel(c.s_accumulated[pos + 1], s.p,
                     c.s_enable_accumulation, c.s_frame_index)

\* render_chunk, iteration `pos` of `for pos in 0..chunk.size`, for the chunk
\* task c run by a thread whose generator is in state r at the iteration
ChunkPixel(c, r, pos) ==
    ChunkSample(c, r, pos,
                ScenePixel(RayDirections(camera)[pos + c.pixel_offset + 1], r))

\* the iteration that follows the iterations `before`, by a thread whose
\* generator was in state g when the loop began
ChunkNext(c, g, before) ==
    Append(before,
           ChunkPixel(c, IF before = <<>> THEN g ELSE before[Len(before)].rnd,
                      Len(before)))

\* render_chunk, the iterations before n: what each of them did
RECURSIVE ChunkLoop(_, _, _)
ChunkLoop(c, g, n) ==
    IF n = 0 THEN <<>> ELSE ChunkNext(c, g, ChunkLoop(c, g, n - 1))

\* the numbers drawn by the first pos iterations of the loop
RECURSIVE ChunkDraws(_, _)
ChunkDraws(done, pos) ==
    IF pos = 0 THEN 0 ELSE ChunkDraws(done, pos - 1) + done[pos].draws

\* the indices the loop uses are in range (otherwise the task panics)
ChunkInRange(c) ==
    /\ c.size <= Len(c.s_accumulated)
    /\ c.size + c.pixel_offset <= camera.width * camera.height
    /\ c.start + 4 * c.size <= Len(img)

\* the iterations the loop completes: all of them, or those before the first
\* index into camera.ray_directions that is out of range (the private
\* accumulators and the task's slice of img have chunk.size entries each)
ChunkShaded(c) ==
    IF ChunkInRange(c) THEN c.size
    ELSE Max(0, Min(c.size, camera.width * camera.height - c.pixel_offset))

\* s.render_chunk(scene, camera, &mut rnd, chunk, e.1); s
\* The loop touches the task's private Renderer, the thread's generator and
\* the task's own slice of img only, so it is one step of the task.  When an
\* index is out of range the loop panics there: the bytes written and the
\* numbers drawn before it stay, the private Renderer is lost.
TaskRun(w) ==
    /\ UNCHANGED <<tvars, mvars>>
    /\ pc = "par"
    /\ \E k \in DOMAIN chunks :
        /\ chunks[k].st = "running"
        /\ chunks[k].rnd = w
        /\ \E done \in {ChunkLoop(chunks[k], rng[w], ChunkShaded(chunks[k]))} :
           LET c == chunks[k]
               n == Len(done) IN
           /\ img' = [j \in 1..Len(img) |->
                        IF j \in (c.start + 1)..(c.start + 4 * n)
                        THEN done[((j - c.start - 1) \div 4) + 1]
                                .color[((j - c.start - 1) % 4) + 1]
                        ELSE img[j]]
           /\ rng' = [rng EXCEPT ![w] = IF n = 0 THEN @ ELSE done[n].rnd]
           /\ shade_log' = [i \in 1..Len(shade_log) |->
                 IF i \in ((c.start \div 4) + 1)..((c.start \div 4) + n)
                 THEN [ray |-> done[i - (c.start \div 4)].idx,
                       acc |-> done[i - (c.start \div 4)].idx,
                       draw |-> done[i - (c.start \div 4)].draw]
                 ELSE shade_log[i]]
           /\ rng_dirty' = [rng_dirty EXCEPT ![w] = @ \/ ChunkDraws(done, n) > 0]
           /\ IF ChunkInRange(c)
              THEN /\ chunks' = [chunks EXCEPT ![k] =
                         [@ EXCEPT
                            !.s_accumulated =
                               [q \in 1..Len(c.s_accumulated) |->
                                   IF q <= c.size
                                   THEN done[q].acc
                                   ELSE c.s_accumulated[q]],
                            !.s_rays =
                               [q \in 1..Len(c.s_rays) |->
                                   IF q > c.size THEN c.s_rays[q]
                                   ELSE IF c.s_enable_accumulation
                                   THEN Append(c.s_rays[q], done[q].idx)
                                   ELSE <<done[q].idx>>],
                            !.pos = c.size,
                            !.rnd = 0,
                            !.st = "done"]]
                   /\ UNCHANGED <<pc, call>>
              ELSE /\ pc' = "panic"
                   /\ call' = [call EXCEPT !.result = "panic"]
                   /\ UNCHANGED chunks
    /\ UNCHANGED <<accumulated, enable_accumulation, max_frames_rendering,
                   frame_index, camera, tile_count, acc_rays,
                   shaded_frames>>

\* ------------------------------------------------ Renderer::render, merge
\* (variant for C4: the merge does not wait for every closure)
CollectedWhenAnyDone(col) == \E k \in DOMAIN col : col[k].st = "done"

\* .collect() of the parallel map returns once every closure has returned
Collected(col) == \A k \in DOMAIN col : col[k].st = "done"

\* acc[offset..offset + len].copy_from_slice(src)
CopyFromSlice(acc, offset, src) ==
    [i \in 1..Len(acc) |->
        IF i \in (offset + 1)..(offset + Len(src)) THEN src[i - offset]
        ELSE acc[i]]

\* the value of the local `offset` when the merge loop reaches chunk k
RECURSIVE MergeOffset(_, _)
MergeOffset(col, k) ==
    IF k = 1 THEN 0
    ELSE MergeOffset(col, k - 1) + Len(col[k - 1].s_accumulated)

\* for c in col { copy_from_slice; offset += len }, from chunk k on
RECURSIVE MergeLoop(_, _, _)
MergeLoop(acc, col, k) ==
    IF k > Len(col) THEN acc
    ELSE MergeLoop(CopyFromSlice(acc, MergeOffset(col, k),
                                 col[k].s_accumulated), col, k + 1)

\* the same loop on the history of the accumulators
RECURSIVE MergeRays(_, _, _)
MergeRays(rays, col, k) ==
    IF k > Len(col) THEN rays
    ELSE MergeRays(CopyFromSlice(rays, MergeOffset(col, k), col[k].s_rays),
                   col, k + 1)

\* (variant for C8: the increment is lost)
NextFrameIndexUnchanged(fi) == fi

\* self.frame_index += 1
NextFrameIndex(fi) == fi + 1

\* the merge loop, texture.update (which may fail) and the increment
Merge(ok) ==
    /\ UNCHANGED <<tvars, mvars>>
    /\ pc = "par"
    /\ Collected(chunks)
    /\ ok \in BOOLEAN
    /\ accumulated' = MergeLoop(accumulated, chunks, 1)
    /\ acc_rays' = MergeRays(acc_rays, chunks, 1)
    /\ shade_log' = <<>>
    /\ rng_dirty' = [w \in Workers |-> FALSE]
    /\ shaded_frames' = shaded_frames + 1
    /\ chunks' = <<>>
    /\ tile_count' = 0
    /\ IF ok
       THEN /\ frame_index' = NextFrameIndex(frame_index)
            /\ pc' = "idle"
            /\ call' = [call EXCEPT !.result = "ok"]
       ELSE /\ frame_index' = frame_index
            /\ pc' = "failed"
            /\ call' = [call EXCEPT !.result = "err"]
    /\ UNCHANGED <<enable_accumulation, max_frames_rendering, camera, img,
                   rng>>

\* ------------------------------------------------------------- the caller
\* the public fields of Renderer, set before App::run
Configure(enable, max_frames) ==
    /\ UNCHANGED <<tvars, mvars>>
    /\ pc = "new"
    /\ enable \in BOOLEAN
    /\ max_frames \in FrameLimits
    /\ enable_accumulation' = enable
    /\ max_frames_rendering' = max_frames
    /\ UNCHANGED <<accumulated, frame_index, camera, img, pc, tile_count,
                   chunks, rng, call, shade_log, rng_dirty,
                   acc_rays, shaded_frames>>

Next ==
    \/ \E e \in BOOLEAN, m \in FrameLimits : Configure(e, m)
    \/ \E s \in Sizes \cup {NoResize}, u \in BOOLEAN, n \in 1..MaxTiles :
          RenderReturn(s, u, n, scene.diffuse) /\ UNCHANGED <<tvars, mvars>>
    \/ \E s \in Sizes \cup {NoResize}, u \in BOOLEAN, n \in 1..MaxTiles :
          RenderPanic(s, u, n, scene.diffuse) /\ UNCHANGED <<tvars, mvars>>
    \/ \E s \in Sizes \cup {NoResize}, u \in BOOLEAN, n \in 1..MaxTiles :
          RenderDispatch(s, u, n, scene.diffuse) /\ UNCHANGED <<tvars, mvars>>
    \/ \E w \in Workers, k \in 1..(MaxPixels + 1) : TaskStart(w, k)
    \/ \E w \in Workers : TaskRun(w)
    \/ \E ok \in BOOLEAN : Merge(ok)

Spec == Init /\ [][Next]_vars

\* ------------------------------------------------ App::run, logic ticks
\* the hook may be called at any time
AppAnywhere == TRUE

\* The thread of App::run is in its loop, outside render_par: no call of
\* render is in flight.
AppInLoop == pc \in {"new", "idle"}

\* One iteration of `while delta >= 1.`: the hook scene.update_func, if there
\* is one, is called with the scene and may write it (here: it may toggle
\* scene.diffuse); ups counts the ticks, hooks the calls of the hook.
Tick(write) ==
    /\ AppInLoop
    /\ app.ups < MaxTicks
    /\ app' = [app EXCEPT !.ups = @ + 1,
                          !.hooks = IF scene.update_func THEN @ + 1 ELSE @]
    /\ scene' = IF scene.update_func /\ write
                THEN [scene EXCEPT !.diffuse = ~@]
                ELSE scene
    /\ UNCHANGED <<primary, traced, found, march, probe>>
    /\ UNCHANGED rvars

\* main builds the scene with diffuse and enable_accumulation off; the hook
\* may switch diffuse
InitApp ==
    /\ \E s \in Sizes, g \in [Workers -> 0..(RngMod - 1)] : RendererNew(s, g)
    /\ \E s \in RenderScenes, f \in BOOLEAN :
          /\ ~s.diffuse
          /\ ~s.enable_accumulation
          /\ scene = [s EXCEPT !.update_func = f]
    /\ primary = NoPrimary
    /\ traced = NoResult
    /\ found = NoFound
    /\ march = NoMarch
    /\ probe = NoProbe
    /\ app = NoApp

\* The application loop: logic ticks, then a render call with the scene as
\* the ticks left it.
NextApp ==
    \/ \E write \in BOOLEAN : Tick(write)
    \/ \E e \in BOOLEAN, m \in FrameLimits : Configure(e, m)
    \/ \E s \in Sizes \cup {NoResize}, u \in BOOLEAN, n \in 1..MaxTiles :
          RenderReturn(s, u, n, scene.diffuse) /\ UNCHANGED <<tvars, mvars>>
    \/ \E s \in Sizes \cup {NoResize}, u \in BOOLEAN, n \in 1..MaxTiles :
          RenderPanic(s, u, n, scene.diffuse) /\ UNCHANGED <<tvars, mvars>>
    \/ \E s \in Sizes \cup {NoResize}, u \in BOOLEAN, n \in 1..MaxTiles :
          RenderDispatch(s, u, n, scene.diffuse) /\ UNCHANGED <<tvars, mvars>>
    \/ \E w \in Workers, k \in 1..(MaxPixels + 1) : TaskStart(w, k)
    \/ \E w \in Workers : TaskRun(w)
    \/ \E ok \in BOOLEAN : Merge(ok)

SpecApp == InitApp /\ [][NextApp]_vars

\* ------------------------------------------ App::run, the loop's locals
\* The locals of App::run in the field `app`: stage (where the thread is in
\* the loop body), updated, changed (NoResize is None), keys (a movement key
\* is down or the mouse was dragged), ticks (iterations `while delta >= 1.`
\* will make), rays (the length of camera.ray_directions), since (what was
\* processed since the previous render call) and last (the arguments of the
\* latest render call).  The counters ups and fps, which only feed the title
\* of the window, are left at 0.
NoSince == [resize |-> NoResize, camera |-> FALSE, hook |-> FALSE]

\* the window events of one iteration: SizeChanged/Resized stores the size in
\* `changed` and reallocates img; key and mouse events set the flags
LoopPoll(s, keys, ticks) ==
    /\ pc \in {"new", "idle"}
    /\ app.stage = "poll"
    /\ app' = [app EXCEPT !.stage = "tick",
                          !.changed = IF s = NoResize THEN @ ELSE s,
                          !.keys = keys,
                          !.ticks = ticks,
                          !.since.resize = IF s = NoResize THEN @ ELSE s]
    /\ img' = ImgAfter(s)
    /\ UNCHANGED <<accumulated, enable_accumulation, max_frames_rendering,
                   frame_index, camera, pc, chunks, tile_count, rng, call,
                   shade_log, rng_dirty, acc_rays, shaded_frames>>
    /\ UNCHANGED <<scene, primary, traced, found, march, probe>>

\* (variant for C26: the hook's result replaces the flag)
LoopTickOverwriting(u, write) ==
    /\ app.stage = "tick"
    /\ app.ticks > 0
    /\ app' = [app EXCEPT
                 !.ticks = @ - 1,
                 !.updated = IF scene.update_func THEN u ELSE (@ \/ app.keys),
                 !.rays = IF app.keys THEN camera.width * camera.height ELSE @,
                 !.since.camera = @ \/ app.keys,
                 !.since.hook = @ \/ (scene.update_func /\ u)]
    /\ UNCHANGED rvars
    /\ scene' = IF scene.update_func /\ write
                THEN [scene EXCEPT !.diffuse = ~@]
                ELSE scene
    /\ UNCHANGED <<primary, traced, found, march, probe>>

\* one iteration of `while delta >= 1.`: with camera events camera.update is
\* called (it recomputes ray_directions) and updated is set; the hook, if
\* there is one, is called with the scene, which it may write (here: it may
\* toggle scene.diffuse), and returns u, which is stored only while updated
\* is false
LoopTick(u, write) ==
    /\ app.stage = "tick"
    /\ app.ticks > 0
    /\ app' = [app EXCEPT
                 !.ticks = @ - 1,
                 !.updated = IF scene.update_func /\ ~(@ \/ app.keys)
                             THEN u ELSE (@ \/ app.keys),
                 !.rays = IF app.keys THEN camera.width * camera.height ELSE @,
                 !.since.camera = @ \/ app.keys,
                 !.since.hook = @ \/ (scene.update_func /\ u)]
    /\ UNCHANGED rvars
    /\ scene' = IF scene.update_func /\ write
                THEN [scene EXCEPT !.diffuse = ~@]
                ELSE scene
    /\ UNCHANGED <<primary, traced, found, march, probe>>

\* `if let Some((w, h)) = changed` when create_texture_streaming fails:
\* updated is set and the camera has taken the size, run returns the error
\* before render is called
LoopTextureFails ==
    /\ pc \in {"new", "idle"}
    /\ app.stage = "tick"
    /\ app.ticks = 0
    /\ app.changed # NoResize
    /\ camera' = CameraAfter(app.changed)
    /\ app' = [app EXCEPT !.stage = "stopped",
                          !.updated = TRUE,
                          !.rays = app.changed[1] * app.changed[2]]
    /\ UNCHANGED <<accumulated, enable_accumulation, max_frames_rendering,
                   frame_index, img, pc, chunks, tile_count, rng, call,
                   shade_log, rng_dirty, acc_rays, shaded_frames>>
    /\ UNCHANGED <<scene, primary, traced, found, march, probe>>

\* The iteration from `if let Some((w, h)) = changed` (updated is set, the
\* camera takes the size and recomputes ray_directions, changed is None
\* again) to the entry of render: the thread is then in render, which
\* returns early, panics or hands the chunks to the pool.  img was allocated
\* for the size when the event was polled.
LoopRender(num_chunks) ==
    /\ app.stage = "tick"
    /\ app.ticks = 0
    /\ LET updated == app.updated \/ app.changed # NoResize IN
       /\ \/ RenderReturn(app.changed, updated, num_chunks, scene.diffuse)
          \/ RenderPanic(app.changed, updated, num_chunks, scene.diffuse)
          \/ RenderDispatch(app.changed, updated, num_chunks, scene.diffuse)
       /\ app' = [app EXCEPT
                    !.stage = "render",
                    !.updated = updated,
                    !.changed = NoResize,
                    !.rays = IF app.changed # NoResize
                             THEN app.changed[1] * app.changed[2] ELSE @,
                    !.since = NoSince,
                    !.last = [done |-> TRUE,
                              kind |-> call'.kind,
                              updated |-> updated,
                              since |-> app.since,
                              old_pixels |-> Len(accumulated),
                              width |-> camera'.width,
                              height |-> camera'.height,
                              rays |-> IF app.changed # NoResize
                                       THEN app.changed[1] * app.changed[2]
                                       ELSE app.rays,
                              acc_len |-> Len(accumulated'),
                              img_len |-> Len(img')]]
    /\ UNCHANGED <<scene, primary, traced, found, march, probe>>

\* render has returned: its error ends the loop (`?`); else canvas.copy,
\* whose error ends the loop too, canvas.present and `updated = false`.  A
\* panic in render ends the thread there.
LoopPresent(ok) ==
    /\ app.stage = "render"
    /\ pc \in {"idle", "failed"}
    /\ pc = "failed" => ok
    /\ app' = IF pc = "idle" /\ ok
              THEN [app EXCEPT !.stage = "poll", !.updated = FALSE]
              ELSE [app EXCEPT !.stage = "stopped"]
    /\ UNCHANGED rvars
    /\ UNCHANGED <<scene, primary, traced, found, march, probe>>

\* main of a scene binary, then App::run up to the loop: the scene is built
\* with its accumulation switch and frame limit, the renderer by
\* Renderer::new(); the camera has the size of the window (its update
\* computed ray_directions), img is allocated for it, updated is true
InitLoop ==
    /\ \E s \in WindowSizes, g \in [Workers -> {0}] : RendererNew(s, g)
    /\ \E s \in RenderScenes, m \in FrameLimits, f \in BOOLEAN :
          scene = [s EXCEPT !.max_frames_rendering = m, !.update_func = f]
    /\ primary = NoPrimary
    /\ traced = NoResult
    /\ found = NoFound
    /\ march = NoMarch
    /\ probe = NoProbe
    /\ app = [ups |-> 0, hooks |-> 0,
              stage |-> "poll", updated |-> TRUE, changed |-> NoResize,
              keys |-> FALSE, ticks |-> 0,
              rays |-> camera.width * camera.height,
              since |-> NoSince, last |-> [done |-> FALSE]]

NextLoop ==
    \/ \E s \in WindowSizes \cup {NoResize}, keys \in BOOLEAN,
          ticks \in 0..MaxTicks : LoopPoll(s, keys, ticks)
    \/ \E u \in BOOLEAN, write \in BOOLEAN : LoopTick(u, write)
    \/ LoopTextureFails
    \/ \E n \in 1..MaxTiles : LoopRender(n)
    \/ \E w \in Workers, k \in 1..(MaxPixels + 1) : TaskStart(w, k)
    \/ \E w \in Workers : TaskRun(w)
    \/ \E ok \in BOOLEAN : Merge(ok)
    \/ \E ok \in BOOLEAN : LoopPresent(ok)

SpecLoop == InitLoop /\ [][NextLoop]_vars

\* One evaluation of albedo for a primary ray
Albedo ==
    /\ ~traced.done
    /\ LET c == albedo(primary.ray, primary.rnd)
       IN  traced' = [done |-> TRUE, col |-> c.col, rnd |-> c.rnd,
                      log |-> c.log]
    /\ UNCHANGED <<scene, primary, found>>
    /\ UNCHANGED mvars
    /\ UNCHANGED rvars

InitTrace ==
    /\ RendererNew(<<1, 1>>, [w \in Workers |-> 0])
    /\ scene \in Scenes
    /\ primary \in [ray : PrimaryRaysOf(scene), rnd : 0..(RngMod - 1)]
    /\ traced = NoResult
    /\ found = NoFound
    /\ march = NoMarch
    /\ probe = NoProbe
    /\ app = NoApp

NextTrace == Albedo

SpecTrace == InitTrace /\ [][NextTrace]_vars

\* One call of trace_ray for a primary ray
Scan ==
    /\ ~found.done
    /\ found' = [done |-> TRUE, res |-> trace_ray(primary.ray)]
    /\ UNCHANGED <<scene, primary, traced>>
    /\ UNCHANGED mvars
    /\ UNCHANGED rvars

InitScan ==
    /\ RendererNew(<<1, 1>>, [w \in Workers |-> 0])
    /\ \E objs \in SeqsUpTo(ScanObjects, MaxScanned) :
          scene = [LitScene EXCEPT !.objects = objs]
    /\ primary \in [ray : PrimaryRays, rnd : {0}]
    /\ traced = NoResult
    /\ found = NoFound
    /\ march = NoMarch
    /\ probe = NoProbe
    /\ app = NoApp

NextScan == Scan

SpecScan == InitScan /\ [][NextScan]_vars

\* ------------------------------------------------- tracer: one light()
\* The planes light() alone is applied to: the one the ray hits, at 2, and
\* planes behind the origin of the ray, where the shadow rays run.
LitPlanes == [kind : {"Plane"}, point : {-3, -1, 2}, normal : {1},
              max_dist : {None}, material_index : {1, 3}]

\* One call of light for the hit of the primary ray, with the albedo color
\* gives it.  halved lists, per light, whether the shadow loop halved l_acc
\* on its account (no entry: no shadow ray was traced).
Light ==
    /\ probe.fn = "RayTracing::light"
    /\ ~probe.done
    /\ LET t == trace_ray(primary.ray)
           material == scene.materials[t.hit.material_index]
           colour == IF material.kind = "Reflective"
                     THEN HitAlbedo(material, t.hit)
                     ELSE material.albedo
       IN  probe' = [probe EXCEPT
                       !.done = TRUE,
                       !.hit = t.hit,
                       !.obj_index = t.idx,
                       !.l_acc = LightSum(primary.ray, t.hit, colour, material,
                                          Len(scene.lights)),
                       !.halved = IF scene.shadow_casting
                                  THEN [k \in DOMAIN scene.lights |->
                                           InShadow(t.hit, t.idx,
                                                    scene.lights[k])]
                                  ELSE <<>>,
                       !.out = light(primary.ray, t.hit, colour, material,
                                     t.idx)]
    /\ UNCHANGED <<tvars, march, app>>
    /\ UNCHANGED rvars

InitLight ==
    /\ RendererNew(<<1, 1>>, [w \in Workers |-> 0])
    /\ \E objs \in SeqsUpTo(LitPlanes, MaxObjects) :
       \E ls \in SeqsUpTo(Directionals \cup Positionals, MaxLights) :
       \E sc \in BOOLEAN :
          scene = [LitScene EXCEPT !.objects = objs, !.lights = ls,
                                       !.materials = Palette,
                                       !.textures = Textures,
                                       !.shadow_casting = sc]
    /\ primary = [ray |-> AxisRay(0, Over1(0), Over1(0), 1), rnd |-> 0]
    /\ trace_ray(primary.ray).some
    /\ traced = NoResult
    /\ found = NoFound
    /\ march = NoMarch
    /\ probe = [fn |-> "RayTracing::light", done |-> FALSE, hit |-> None,
                obj_index |-> 0, l_acc |-> Over1(0), halved |-> <<>>,
                out |-> Black]
    /\ app = NoApp

NextLight == Light

SpecLight == InitLight /\ [][NextLight]_vars

\* ------------------------------------------- tracer: a moving object
\* Lengths are in tenths, angles in degrees.  A Mat4 built by update() is
\* kept as the factors of its product:
\* from_translation(translation) * from_rotation_x(rotation.x * DEGREES)
\*   * from_rotation_y(rotation.y * DEGREES)
\*   * from_rotation_z(rotation.z * DEGREES) * from_scale(scale),
\* or, inverted, as the inverse of that product.
Mat4(translation, rotation, scale) ==
    [translation |-> translation, rotation |-> rotation, scale |-> scale,
     inverted |-> FALSE]

\* Mat4::inverse
inverse(t) == [t EXCEPT !.inverted = ~@]

\* Sphere::update: the scale is the radius
Sphere_update(self) ==
    LET t == Mat4(self.position, self.rotation_axis, self.radius)
    IN  [self EXCEPT !.transform = t, !.inv_transform = inverse(t)]

\* Cylinder::update: no from_scale (the scale is 1.0)
Cylinder_update(self) ==
    LET t == Mat4(self.position, self.rotation_axis, 10)
    IN  [self EXCEPT !.transform = t, !.inv_transform = inverse(t)]

\* Sphere::new (rotation_axis is Vec3::ZERO) and Cylinder::new: the fields,
\* then update().  The sphere and the cylinder of bin/scene4.rs are at
\* (0, -1, -2) and (-1, 1.2, 0.2), the cylinder turned by (0, 0, 45).
NoMat == Mat4(<<0, 0, 0>>, <<0, 0, 0>>, 0)
MovingSpheres ==
    { Sphere_update([kind |-> "Sphere", position |-> p,
                     rotation_axis |-> <<0, 0, 0>>, radius |-> r,
                     material_index |-> 1,
                     transform |-> NoMat, inv_transform |-> NoMat]) :
        p \in {<<0, -10, -20>>, <<20, -10, -20>>}, r \in {15, 30} }
MovingCylinders ==
    { Cylinder_update([kind |-> "Cylinder", position |-> <<-10, 12, 2>>,
                       radius |-> 15, height |-> 5, rotation_axis |-> a,
                       material_index |-> 2,
                       transform |-> NoMat, inv_transform |-> NoMat]) :
        a \in {<<0, 0, 45>>, <<0, 0, 0>>} }

\* the primary rays of a render call: down and up, beside the centre of the
\* sphere in x and in z
MovingRays ==
    { [origin |-> <<10, 60, 0>>, direction |-> <<0, -1, 0>>],
      [origin |-> <<10, -60, 0>>, direction |-> <<0, 1, 0>>] }

\* the hit of Sphere::intersect at the distance t1, where l is the point
\* of the unit sphere times den.  The normal is transform * (l, 0.)
\* normalized, which is l of a matrix without rotation; of u and v, the
\* quotient is kept whose arctangent times INV_PI the field is.  The field u
\* is given v * INV_PI and the field v is given u * INV_PI.
MovedHit(obj, ray, t1, l, den) ==
    [distance |-> t1,
     point |-> Add3(ray.origin, Scale3(ray.direction, t1)),
     normal |-> [num |-> Scale3(l, Sign(obj.transform.scale)), den |-> den],
     material_index |-> obj.material_index,
     u |-> [atan |-> Lowest(l[2], l[1])],
     v |-> [atan |-> Lowest(l[1] * l[1] + l[2] * l[2], l[3] * den)]]

\* Sphere::intersect through the matrices of the object, for a matrix with
\* no rotation: inv_transform takes a point p to (p - translation) / scale
\* and a direction d to d / scale.  Both are kept times scale, which
\* multiplies a, b and c by scale^2 and leaves the sign of disc and t1 as
\* they are.  disc is a square in the scenes, and l.x and l.z are not 0.
sphere_intersect_cached(obj, ray) ==
    LET ray_dir == ray.direction
        ray_origin == Sub3(ray.origin, obj.inv_transform.translation)
        a == Dot3(ray_dir, ray_dir)
        b == 2 * Dot3(ray_origin, ray_dir)
        c == Dot3(ray_origin, ray_origin)
               - obj.inv_transform.scale * obj.inv_transform.scale
        disc == b * b - 4 * a * c
    IN  IF disc < 0 THEN None
        ELSE [some |-> TRUE,
              hit |-> MovedHit(obj, ray, (-b - ISqrt(disc)) \div (2 * a),
                               Add3(ray_origin,
                                    Scale3(ray_dir, (-b - ISqrt(disc))
                                                       \div (2 * a))),
                               obj.inv_transform.scale)]

\* (variant for C25: the fields are written and update() is not called)
SceneUpdateStale(s) ==
    /\ found.stage = "idle"
    /\ app.hooks < MaxTicks
    /\ app' = [app EXCEPT !.ups = @ + 1, !.hooks = @ + 1]
    /\ scene' = [scene EXCEPT
                   !.objects[1] = [@ EXCEPT !.position[2] = 10 * s * 1 + 8],
                   !.objects[2] = [@ EXCEPT !.rotation_axis[2] = @ + 2 * 1]]
    /\ UNCHANGED <<primary, traced, found, march, probe>>
    /\ UNCHANGED rvars

\* update of bin/scene4.rs, called with the scene and ts between two render
\* calls; s is ts.sin() and speed is 1.  The sphere (objects[2] there, the
\* first here) is given position.y = s * speed + 0.8, the cylinder
\* (objects[3] there) rotation_axis.y += 2. * speed; each then calls its
\* update().  The hook returns true.
SceneUpdate(s) ==
    /\ found.stage = "idle"
    /\ app.hooks < MaxTicks
    /\ app' = [app EXCEPT !.ups = @ + 1, !.hooks = @ + 1]
    /\ scene' = [scene EXCEPT
                   !.objects[1] =
                       Sphere_update([@ EXCEPT !.position[2] = 10 * s * 1 + 8]),
                   !.objects[2] =
                       Cylinder_update([@ EXCEPT !.rotation_axis[2] = @ + 2 * 1])]
    /\ UNCHANGED <<primary, traced, found, march, probe>>
    /\ UNCHANGED rvars

\* A render call seen from the objects, up to Ray::hit of the primary ray on
\* the sphere, which borrows the object (&self): `seen` is the objects the
\* call finds, `hooks` the calls of the hook before it.
RenderMoved ==
    /\ found.stage = "idle"
    /\ found' = [done |-> FALSE, stage |-> "render",
                 hit |-> sphere_intersect_cached(scene.objects[1], primary.ray),
                 seen |-> scene.objects,
                 after |-> <<>>,
                 hooks |-> app.hooks]
    /\ UNCHANGED <<scene, primary, traced, march, probe, app>>
    /\ UNCHANGED rvars

\* The render call returns: `after` is the objects it leaves.
RenderedMoved ==
    /\ found.stage = "render"
    /\ found' = [found EXCEPT !.done = TRUE, !.stage = "idle",
                              !.after = scene.objects]
    /\ UNCHANGED <<scene, primary, traced, march, probe, app>>
    /\ UNCHANGED rvars

InitMove ==
    /\ RendererNew(<<1, 1>>, [w \in Workers |-> 0])
    /\ \E s \in MovingSpheres, c \in MovingCylinders :
          scene = [LitScene EXCEPT !.objects = <<s, c>>,
                                   !.update_func = TRUE]
    /\ primary \in [ray : MovingRays, rnd : {0}]
    /\ traced = NoResult
    /\ found = [done |-> FALSE, stage |-> "idle"]
    /\ march = NoMarch
    /\ probe = NoProbe
    /\ app = NoApp

NextMove ==
    \/ \E s \in {-1, 0, 1} : SceneUpdate(s)
    \/ RenderMoved
    \/ RenderedMoved

SpecMove == InitMove /\ [][NextMove]_vars

\* ------------------------------------------------------- the ray marcher
\* The marcher is modelled on the same axis, with lengths in thousandths
\* (HIT_PRECISION is 1).  A plane has a unit normal along the axis (normal
\* -1 or 1) or across it (normal 0); lateral is the part of
\* (p - point) . normal that the components across the axis contribute, the
\* same at every p of the ray.
MarchPlane(point, normal, lateral) ==
    [kind |-> "Plane", point |-> point, normal |-> normal,
     lateral |-> lateral, material_index |-> 1]

\* planes facing the ray, near and beyond MAX_DISTANCE; planes along the
\* axis, through it, close to it and far from it
MarchPlanes ==
    { MarchPlane(1000, -1, 0), MarchPlane(50000, -1, 0),
      MarchPlane(0, 0, 0), MarchPlane(0, 0, 100), MarchPlane(0, 0, 1000) }

\* spheres on the axis, around the origin of the ray and away from it, of
\* radius 0.5 and 1
MarchSpheres == [kind : {"Sphere"}, position : {0, 3000}, radius : {500, 1000},
                 material_index : {1}]

MarchObjects == MarchPlanes \cup MarchSpheres

\* scene.sdfs: indexes of scene.objects, in increasing order
SdfIndexes(n) ==
    { s \in SeqsUpTo(1..n, n) : \A i, j \in DOMAIN s : i < j => s[i] < s[j] }

\* f32::MAX: farther than every distance of the model
FarAway == MAX_DISTANCE * 1000 * 1000

\* Sphere::transform_ray: inv_transform takes the origin to
\* (origin - position) / radius and the direction to direction / radius;
\* the radius is in thousandths, and divides 1000 times a length
transform_ray(obj, ray) ==
    [ray EXCEPT !.origin = ((@ - obj.position) * 1000) \div obj.radius,
                !.direction = (@ * 1000) \div obj.radius,
                !.vector = Scale3(@, 1000 \div obj.radius)]

\* Plane::sdf at the point ray.origin + ray.direction * t; Sphere::sdf at
\* that point of the transformed ray, whose length it compares with the
\* radius
sdf(obj, ray, t) ==
    LET p == ray.origin + ray.direction * t
        c == scene.materials[obj.material_index].albedo
        moved == transform_ray(obj, ray)
    IN  IF obj.kind = "Plane"
        THEN [distance |-> (p - obj.point) * obj.normal + obj.lateral,
              albedo |-> c,
              transformed_ray |-> ray]
        ELSE [distance |-> Abs(moved.origin + moved.direction * t)
                             - obj.radius,
              albedo |-> c,
              transformed_ray |-> moved]

Clamp(x, lo, hi) == Max(lo, Min(x, hi))

\* geometry::interpolation: the fraction h, over 2 * k
interpolation(d1, d2, k) == Frac(Clamp(k + d2 - d1, 0, 2 * k), 2 * k)

\* geometry::mix, geometry::mix_vec3 with the fraction a
mix(x, y, a) == Frac(x * (a.den - a.num) + y * a.num, a.den)

\* the correction is added
smooth_union_above(d1, d2, k) ==
    LET h == interpolation(d1, d2, k)
        m == mix(d2, d1, h)
    IN  Frac(2 * m.num + h.num * (h.den - h.num), 2 * m.den)

\* geometry::smooth_union: mix(d2, d1, h) - k * h * (1 - h), over 4 * k
smooth_union(d1, d2, k) ==
    LET h == interpolation(d1, d2, k)
        m == mix(d2, d1, h)
    IN  Frac(2 * m.num - h.num * (h.den - h.num), 2 * m.den)

\* Union::new, Substraction::new: first and second are indexes of
\* scene.objects
Union(first, second) ==
    [kind |-> "Union", first |-> first, second |-> second]
Substraction(first, second) ==
    [kind |-> "Substraction", first |-> first, second |-> second]

\* Union::sdf at the point of the ray: k = 0.7 is 700 thousandths, the
\* blended distance is rounded down to a whole thousandth
UnionAt(obj, ray, t) ==
    LET h1 == sdf(scene.objects[obj.first], ray, t)
        h2 == sdf(scene.objects[obj.second], ray, t)
        i == interpolation(h1.distance, h2.distance, 700)
    IN  [distance |-> Floor(smooth_union(h1.distance, h2.distance, 700)),
         albedo |-> mix(h1.albedo, h2.albedo, Frac(i.den - i.num, i.den)),
         transformed_ray |-> IF h1.distance < h2.distance
                             THEN h1.transformed_ray
                             ELSE h2.transformed_ray]

\* Substraction::sdf: (-h2.distance).max(h1.distance), the albedo of the
\* material of the first object, the ray of the second
SubstractionAt(obj, ray, t) ==
    LET o1 == scene.objects[obj.first]
        h1 == sdf(o1, ray, t)
        h2 == sdf(scene.objects[obj.second], ray, t)
    IN  [distance |-> Max(-h2.distance, h1.distance),
         albedo |-> scene.materials[o1.material_index].albedo,
         transformed_ray |-> h2.transformed_ray]

\* RayMarching::sdfs, one arm of the match: the hit of the entry, and the
\* object index the arm records for it (idx, or s.second for a Union or a
\* Substraction)
SdfsArm(idx, ray, t) ==
    LET obj == scene.objects[idx]
    IN  IF obj.kind = "Union"
        THEN [obj_idx |-> obj.second, hit |-> UnionAt(obj, ray, t)]
        ELSE IF obj.kind = "Substraction"
        THEN [obj_idx |-> obj.second, hit |-> SubstractionAt(obj, ray, t)]
        ELSE [obj_idx |-> idx, hit |-> sdf(obj, ray, t)]

\* RayMarching::sdfs: the nearest of the objects scene.sdfs lists.  Object
\* indexes are one more than in the program.
RECURSIVE SdfsLoop(_, _, _, _)
SdfsLoop(ray, t, k, best) ==
    IF k > Len(scene.sdfs) THEN best
    ELSE LET d == SdfsArm(scene.sdfs[k], ray, t)
         IN  SdfsLoop(ray, t, k + 1,
                      IF d.hit.distance < best.hit.distance THEN d ELSE best)

sdfs(ray, t) ==
    SdfsLoop(ray, t, 1,
             [obj_idx |-> 1,
              hit |-> [distance |-> FarAway, albedo |-> 0,
                       transformed_ray |-> NoPrimary.ray]])

\* the loop runs once more
StepsLeftOneMore(i) == i <= MAX_STEPS

\* march_ray: while i < MAX_STEPS
StepsLeft(i) == i < MAX_STEPS

\* One iteration of the loop of march_ray, or its exit.  evals counts the
\* calls of sdfs, at is the t of the last one.
MarchStep ==
    /\ march.pc = "loop"
    /\ IF StepsLeft(march.i) /\ ~(march.t > MAX_DISTANCE * 1000)
       THEN LET r == sdfs(primary.ray, march.t)
                t == march.t + r.hit.distance
            IN  IF r.hit.distance < 1
                THEN march' = [march EXCEPT
                                 !.pc = "done", !.t = t, !.at = march.t,
                                 !.evals = @ + 1,
                                 !.res = [some |-> TRUE, obj_idx |-> r.obj_idx,
                                          hit |-> [r.hit EXCEPT !.distance = t]]]
                ELSE march' = [march EXCEPT
                                 !.t = t, !.at = march.t, !.i = @ + 1,
                                 !.evals = @ + 1]
       ELSE march' = [march EXCEPT !.pc = "done"]
    /\ UNCHANGED <<tvars, probe, app>>
    /\ UNCHANGED rvars

InitMarch ==
    /\ RendererNew(<<1, 1>>, [w \in Workers |-> 0])
    /\ \E objs \in SeqsUpTo(MarchObjects, MaxSdfs) :
       \E ix \in SdfIndexes(Len(objs)) :
          scene = [LitScene EXCEPT !.objects = objs, !.sdfs = ix,
                                       !.materials = Palette]
    /\ primary \in [ray : PrimaryRays, rnd : {0}]
    /\ traced = NoResult
    /\ found = NoFound
    /\ march = [pc |-> "loop", t |-> 0, i |-> 0, at |-> 0, evals |-> 0,
                res |-> None]
    /\ probe = NoProbe
    /\ app = NoApp

NextMarch == MarchStep

SpecMarch == InitMarch /\ [][NextMarch]_vars

\* ------------------------------------------- the ray marcher: shading
\* The parts of a combined object: two spheres closer than k to each other
\* and a plane facing the ray, each with one of the materials.
ShadeLeaves ==
    { [o EXCEPT !.material_index = m] :
          o \in { MarchPlane(1000, -1, 0),
                  [kind |-> "Sphere", position |-> 3000, radius |-> 1000,
                   material_index |-> 1],
                  [kind |-> "Sphere", position |-> 3300, radius |-> 1000,
                   material_index |-> 1] },
          m \in 1..MaxMaterial }

\* a Union or a Substraction of the first two objects of the scene
Combined ==
    { Union(1, 2), Union(2, 1), Substraction(1, 2), Substraction(2, 1) }

\* RayMarching::albedo, once march_ray has returned: the object the index
\* names, its material index, the texture its material names (tex, 0 for
\* None) and the RayHit given to light(); a miss is given
\* scene.ambient_color.  `&self.scene.textures[t1]` panics when the scene
\* has no such texture, before the RayHit is made.  The normal is estimated
\* from the distance field across the axis and is left out, and with it the
\* colour of a hit.
MarchAlbedo ==
    /\ march.pc = "done"
    /\ march' =
         IF march.res.some
         THEN LET obj == scene.objects[march.res.obj_idx]
                  mat_idx == obj.material_index
                  mat == scene.materials[mat_idx]
              IN  IF mat.texture # 0 /\ mat.texture \notin DOMAIN scene.textures
                  THEN [march EXCEPT !.pc = "panic", !.mat_idx = mat_idx,
                                     !.tex = mat.texture]
                  ELSE [march EXCEPT
                          !.pc = "shaded",
                          !.mat_idx = mat_idx,
                          !.tex = mat.texture,
                          !.rayhit = [some |-> TRUE,
                                      distance |-> march.res.hit.distance,
                                      point |-> primary.ray.origin
                                                + primary.ray.direction
                                                  * march.res.hit.distance,
                                      material_index |-> mat_idx]]
         ELSE [march EXCEPT !.pc = "shaded", !.col = scene.ambient_color]
    /\ UNCHANGED <<tvars, probe, app>>
    /\ UNCHANGED rvars

InitShade ==
    /\ RendererNew(<<1, 1>>, [w \in Workers |-> 0])
    /\ \E a \in ShadeLeaves, b \in ShadeLeaves, c \in Combined :
       \E ix \in SdfIndexes(3) :
          scene = [LitScene EXCEPT !.objects = <<a, b, c>>, !.sdfs = ix,
                                       !.materials = Palette,
                                       !.textures = Textures,
                                       !.ambient_color = 1]
    /\ primary \in [ray : PrimaryRays, rnd : {0}]
    /\ traced = NoResult
    /\ found = NoFound
    /\ march = [pc |-> "loop", t |-> 0, i |-> 0, at |-> 0, evals |-> 0,
                res |-> None, mat_idx |-> 0, tex |-> 0, rayhit |-> None,
                col |-> 0]
    /\ probe = NoProbe
    /\ app = NoApp

NextShade == MarchStep \/ MarchAlbedo

SpecShade == InitShade /\ [][NextShade]_vars

\* ------------------------------------------------------ the smooth union
\* Distances are in tenths here, so the k of Union::sdf, 0.7, is 7.  A
\* fraction is a record [num, den] with den > 0; the arithmetic is exact.

\* Union::sdf, from the RayMarchingHit of its two objects
union_sdf(h1, h2) ==
    LET i == interpolation(h1.distance, h2.distance, 7)
        col == mix(h1.albedo, h2.albedo, Frac(i.den - i.num, i.den))
        d == smooth_union(h1.distance, h2.distance, 7)
    IN  [distance |-> d, albedo |-> col,
         transformed_ray |-> IF h1.distance < h2.distance
                             THEN h1.transformed_ray
                             ELSE h2.transformed_ray]

\* what the sdf of an object returns: a distance, an albedo, the object's ray
MarchingHits(tag) ==
    [distance : (-MaxTenths)..MaxTenths, albedo : {tag}, transformed_ray : {tag}]

\* One call of Union::sdf
UnionSdf ==
    /\ probe.fn = "Union::sdf"
    /\ ~probe.done
    /\ probe' = [probe EXCEPT !.done = TRUE,
                              !.out = union_sdf(probe.h1, probe.h2)]
    /\ UNCHANGED <<tvars, march, app>>
    /\ UNCHANGED rvars

InitUnion ==
    /\ RendererNew(<<1, 1>>, [w \in Workers |-> 0])
    /\ scene = DefaultScene
    /\ primary = NoPrimary
    /\ traced = NoResult
    /\ found = NoFound
    /\ march = NoMarch
    /\ \E h1 \in MarchingHits(1), h2 \in MarchingHits(2) :
          probe = [fn |-> "Union::sdf", done |-> FALSE, h1 |-> h1, h2 |-> h2,
                   out |-> None]
    /\ app = NoApp

NextUnion == UnionSdf

SpecUnion == InitUnion /\ [][NextUnion]_vars

\* ------------------------------------------------------ texture sampling
\* A Texture of the given size whose byte i is i (3 bytes per pixel, rows
\* first); u and v are in tenths.
TextureOf(width, height) ==
    [width |-> width, height |-> height,
     bytes |-> [i \in 1..(width * height * 3) |-> i - 1]]

\* `as u32` of an f32, the f32 being n / 10: the fraction is dropped, a
\* negative value becomes 0
AsU32(n) == IF n < 0 THEN 0 ELSE n \div 10

\* Texture::pixel.  Indexing bytes beyond its length panics.
pixel(tex, x, y) ==
    LET pos == y * 3 * tex.width + x * 3
    IN  IF pos + 2 >= Len(tex.bytes)
        THEN [panic |-> TRUE, x |-> x, y |-> y, pos |-> pos]
        ELSE [panic |-> FALSE, x |-> x, y |-> y, pos |-> pos,
              rgb |-> << tex.bytes[pos + 1], tex.bytes[pos + 2],
                         tex.bytes[pos + 3] >>]

\* Texture::baricentric_pixel
baricentric_pixel(tex, u, v) ==
    LET x == AsU32(tex.width * u)
        y == AsU32(tex.height * v)
    IN  pixel(tex, x, y)

\* One call of Texture::baricentric_pixel
Sample ==
    /\ probe.fn = "Texture::baricentric_pixel"
    /\ ~probe.done
    /\ probe' = [probe EXCEPT
                   !.done = TRUE,
                   !.out = baricentric_pixel(probe.tex, probe.u, probe.v)]
    /\ UNCHANGED <<tvars, march, app>>
    /\ UNCHANGED rvars

InitSample ==
    /\ RendererNew(<<1, 1>>, [w \in Workers |-> 0])
    /\ scene = DefaultScene
    /\ primary = NoPrimary
    /\ traced = NoResult
    /\ found = NoFound
    /\ march = NoMarch
    /\ app = NoApp
    /\ \E w \in 1..MaxTexSide, h \in 1..MaxTexSide :
       \E u \in (-MaxUv)..MaxUv, v \in (-MaxUv)..MaxUv :
          probe = [fn |-> "Texture::baricentric_pixel", done |-> FALSE,
                   tex |-> TextureOf(w, h), u |-> u, v |-> v, out |-> None]

NextSample == Sample

SpecSample == InitSample /\ [][NextSample]_vars

\* --------------------------------------------------- reflecting a vector
\* An f32 (IEEE 754 binary32) that is finite and normal: the number
\* (-1)^neg * m * 2^e, where m = 0 (zero, with e = 0 and neg false) or
\* 2^23 <= m < 2^24.  Sums and products are rounded to the nearest f32, ties
\* to the even mantissa, as the processor rounds them.
F32(neg, m, e) == [neg |-> neg, m |-> m, e |-> e]
F32Zero == F32(FALSE, 0, 0)

\* where the bits dropped lie: 0 none was set, 1 below the half of the last
\* bit kept, 2 on it, 3 above it
Above(rem, half) ==
    IF rem = 0 THEN 0 ELSE IF rem < half THEN 1
    ELSE IF rem = half THEN 2 ELSE 3

\* the f32 nearest to q * 2^e plus the bits dropped, 2^23 <= q < 2^24
F32Round(neg, q, above, e) ==
    IF ~(above = 3 \/ (above = 2 /\ q % 2 = 1)) THEN F32(neg, q, e)
    ELSE IF q + 1 = 2^24 THEN F32(neg, 2^23, e + 1)
    ELSE F32(neg, q + 1, e)

\* the f32 nearest to n/den * 2^(-k), for n > 0 and 0 < den < 128
RECURSIVE F32Scaled(_, _, _, _)
F32Scaled(neg, n, den, k) ==
    IF n \div den >= 2^23
    THEN F32Round(neg, n \div den, Above(2 * (n % den), den), -k)
    ELSE F32Scaled(neg, 2 * n, den, k + 1)

\* the literal or constant num/den as an f32
F32Of(num, den) ==
    IF num = 0 THEN F32Zero
    ELSE F32Scaled(num < 0, IF num < 0 THEN -num ELSE num, den, 0)

\* a * b.  The product of two mantissas has 48 bits: it is summed from the
\* products of their halves of 12 bits, as hi * 2^24 + lo.
F32Product(neg, hi, lo, e) ==
    IF hi >= 2^23 THEN F32Round(neg, hi, Above(lo, 2^23), e + 24)
    ELSE F32Round(neg, 2 * hi + lo \div 2^23, Above(lo % 2^23, 2^22), e + 23)

F32Mul(a, b) ==
    IF a.m = 0 \/ b.m = 0 THEN F32Zero
    ELSE LET mid == (a.m \div 4096) * (b.m % 4096)
                       + (a.m % 4096) * (b.m \div 4096)
             low == (mid % 4096) * 4096 + (a.m % 4096) * (b.m % 4096)
         IN  F32Product(a.neg # b.neg,
                        (a.m \div 4096) * (b.m \div 4096) + mid \div 4096
                            + low \div 2^24,
                        low % 2^24, a.e + b.e)

\* the f32 nearest to n * 2^e, with k = Log2(n) and n < 2^28
F32Normal(neg, n, k, e) ==
    IF k <= 23 THEN F32(neg, n * 2^(23 - k), e - (23 - k))
    ELSE F32Round(neg, n \div 2^(k - 23),
                  Above(n % 2^(k - 23), 2^(k - 24)), e + (k - 23))

\* y.m * 8 shifted right by d places; a bit shifted out stays in the last one
Sticky(ym, d) ==
    IF d >= 27 THEN 1
    ELSE IF (8 * ym) % 2^d # 0 /\ ((8 * ym) \div 2^d) % 2 = 0
    THEN (8 * ym) \div 2^d + 1
    ELSE (8 * ym) \div 2^d

\* x + y for x.e >= y.e, neither zero: three more bits are kept of each
F32Sum(x, ys, same) ==
    IF ~same THEN (IF 8 * x.m = ys THEN F32Zero
                 ELSE IF 8 * x.m > ys
                 THEN F32Normal(x.neg, 8 * x.m - ys, Log2(8 * x.m - ys),
                                x.e - 3)
                 ELSE F32Normal(~x.neg, ys - 8 * x.m, Log2(ys - 8 * x.m),
                                x.e - 3))
    ELSE F32Normal(x.neg, 8 * x.m + ys, Log2(8 * x.m + ys), x.e - 3)

\* a + b
F32Add(a, b) ==
    IF a.m = 0 THEN b
    ELSE IF b.m = 0 THEN a
    ELSE IF a.e >= b.e THEN F32Sum(a, Sticky(b.m, a.e - b.e), a.neg = b.neg)
    ELSE F32Sum(b, Sticky(a.m, b.e - a.e), a.neg = b.neg)

\* a - b
F32Sub(a, b) ==
    F32Add(a, IF b.m = 0 THEN b ELSE F32(~b.neg, b.m, b.e))

\* |a| <= |b|
F32Within(a, b) ==
    \/ a.m = 0
    \/ b.m # 0 /\ (a.e < b.e \/ (a.e = b.e /\ a.m <= b.m))

\* unit normals as the f32 nearest to each component: along an axis, and
\* (3/5, 4/5) turned through the planes
UnitNormals ==
    { [i \in 1..3 |-> F32Of(n[i], 5)] :
        n \in { << 5, 0, 0 >>, << -5, 0, 0 >>, << 0, 5, 0 >>,
                << 0, -5, 0 >>, << 0, 0, 5 >>, << 0, 0, -5 >>,
                << 3, 4, 0 >>, << 4, 3, 0 >>, << 0, 3, 4 >>,
                << -3, 0, 4 >>, << 0, -4, -3 >>, << 4, 0, -3 >> } }

Vectors ==
    { << F32Of(x, 1), F32Of(y, 1), F32Of(z, 1) >> :
          x \in (-MaxCoord)..MaxCoord, y \in (-MaxCoord)..MaxCoord,
          z \in (-MaxCoord)..MaxCoord }

\* Vec3::dot
F32Dot(a, b) ==
    F32Add(F32Add(F32Mul(a[1], b[1]), F32Mul(a[2], b[2])),
           F32Mul(a[3], b[3]))

\* (variant for C18: the projection vec - (vec . normal) * normal)
reflect_once(vec, normal) ==
    [i \in 1..3 |-> F32Sub(vec[i], F32Mul(F32Dot(vec, normal), normal[i]))]

\* geometry::reflect, Ray::reflect_vec: vec - (2. * vec.dot(normal)) * normal
reflect3(vec, normal) ==
    [i \in 1..3 |->
        F32Sub(vec[i],
               F32Mul(F32Mul(F32Of(2, 1), F32Dot(vec, normal)), normal[i]))]

\* One vector reflected about a normal, and the result reflected again
ReflectTwice ==
    /\ probe.fn = "reflect"
    /\ ~probe.done
    /\ LET once == reflect3(probe.vec, probe.normal)
       IN  probe' = [probe EXCEPT !.done = TRUE,
                                  !.once = once,
                                  !.out = reflect3(once, probe.normal)]
    /\ UNCHANGED <<tvars, march, app>>
    /\ UNCHANGED rvars

InitReflect ==
    /\ RendererNew(<<1, 1>>, [w \in Workers |-> 0])
    /\ scene = DefaultScene
    /\ primary = NoPrimary
    /\ traced = NoResult
    /\ found = NoFound
    /\ march = NoMarch
    /\ app = NoApp
    /\ \E v \in Vectors, n \in UnitNormals :
          probe = [fn |-> "reflect", done |-> FALSE, vec |-> v, normal |-> n,
                   once |-> v, out |-> v]

NextReflect == ReflectTwice

SpecReflect == InitReflect /\ [][NextReflect]_vars

\* ===================================================== claims, renderer
NumPixels == camera.width * camera.height

\* the four bytes of pixel i (from 1)
Quad(i) == SubSeq(img, 4 * (i - 1) + 1, 4 * i)

\* every chunk task of the call in flight has returned; the merge has not run
ShadingDone == pc = "par" /\ \A k \in DOMAIN chunks : chunks[k].st = "done"

\* the call that just returned shaded and its texture upload succeeded
ShadedOk == pc = "idle" /\ call.kind = "shade" /\ call.result = "ok"

\* C1: when a render call has shaded, the bytes of every pixel i are the
\* colour of the ray ray_directions[i] combined with accumulator entry i.
C1_PixelShadedFromOwnRay ==
    ShadingDone =>
        \A i \in 1..NumPixels :
            /\ shade_log[i].ray = i - 1
            /\ shade_log[i].acc = i - 1
            /\ Quad(i) = RenderPixel(accumulated[i],
                            ScenePixel(RayDirections(camera)[i],
                                       shade_log[i].draw).p,
                            enable_accumulation, frame_index).color

\* C2: the merge copies every chunk's private slice back at the offset the
\* slice was taken from, and writes every accumulator exactly once.
C2_MergedAtOriginalOffset ==
    ShadingDone =>
        /\ \A k \in DOMAIN chunks :
              MergeOffset(chunks, k) = chunks[k].pixel_offset
        /\ \A i \in 1..Len(accumulated) :
              Cardinality({k \in DOMAIN chunks :
                  /\ MergeOffset(chunks, k) < i
                  /\ i <= MergeOffset(chunks, k)
                            + Len(chunks[k].s_accumulated)}) = 1

\* C3: a shading call dispatches exactly num_chunks chunks, which are
\* contiguous, disjoint, whole pixels, and cover the image.
C3_ExactlyTileCountChunks ==
    pc = "par" =>
        /\ Len(chunks) = tile_count
        /\ chunks[1].start = 0
        /\ \A k \in DOMAIN chunks :
              /\ chunks[k].buf_len > 0
              /\ chunks[k].buf_len % 4 = 0
              /\ k < Len(chunks) =>
                    chunks[k + 1].start = chunks[k].start + chunks[k].buf_len
        /\ chunks[Len(chunks)].start + chunks[Len(chunks)].buf_len = Len(img)

\* C4: while a chunk task of the call has not returned, no step writes the
\* shared accumulation buffer or frame_index; a step of the parallel phase
\* changes one chunk task only, and bytes of img only inside that task's slice.
C4_NoSharedWriteBeforeJoin ==
    [][(pc = "par" /\ \E k \in DOMAIN chunks : chunks[k].st # "done") =>
          /\ accumulated' = accumulated
          /\ frame_index' = frame_index
          /\ pc' \in {"par", "panic"}
          /\ pc' = "par" =>
                /\ DOMAIN chunks' = DOMAIN chunks
                /\ Cardinality({k \in DOMAIN chunks :
                                   chunks'[k] # chunks[k]}) <= 1
                /\ \A j \in 1..Len(img) :
                      img'[j] # img[j] =>
                          \E k \in DOMAIN chunks :
                              /\ chunks[k].st = "running"
                              /\ chunks'[k].st = "done"
                              /\ j > chunks[k].start
                              /\ j <= chunks[k].start + chunks[k].buf_len
      ]_vars

\* C4 witness: a task has returned while another is running and a third waits
C4_Witness ==
    /\ pc = "par"
    /\ \E k1, k2 \in DOMAIN chunks :
          chunks[k1].st = "done" /\ chunks[k2].st = "running"

\* C5: the generator a chunk task draws from is used by that task alone: a
\* task never runs on a generator that another task of the frame advanced.
C5_GeneratorOwnedByOneChunk ==
    \A k \in DOMAIN chunks :
        chunks[k].st = "running" => ~rng_dirty[chunks[k].rnd]

\* C6: a call with updated = true shades from width*height zero accumulators
\* with frame_index 1, and what it leaves is the first frame of a new
\* renderer: one sample per accumulator, its colour in img, frame_index 2.
C6_UpdatedCallRendersFromScratch ==
    /\ (pc = "par" /\ call.updated) =>
          /\ frame_index = 1
          /\ accumulated = [i \in 1..NumPixels |-> Vec4Zero]
    /\ (ShadedOk /\ call.updated) =>
          /\ frame_index = 2
          /\ Len(accumulated) = NumPixels
          /\ Len(img) = 4 * NumPixels
          /\ \A i \in 1..NumPixels :
                /\ Len(acc_rays[i]) = 1
                /\ \E r \in 0..(RngMod - 1) :
                      LET p == ScenePixel(
                                 RayDirections(camera)[acc_rays[i][1] + 1],
                                 r).p
                      IN  /\ accumulated[i] =
                               (IF enable_accumulation THEN p ELSE Vec4Clamp(p))
                          /\ Quad(i) = to_rgba(Vec4Clamp(p))

\* C6 witness: an updated call has shaded after two accumulated frames of
\* another resolution
C6_Witness ==
    /\ ShadedOk
    /\ call.updated
    /\ call.dropped
    /\ enable_accumulation
    /\ NumPixels >= 2
    /\ \E i \in 1..NumPixels : accumulated[i].rgb > Quantum

\* C7: a render call returns early exactly when frame_index > max_frames, or
\* frame_index > 1 with accumulation disabled and the scene not diffuse.
C7_EarlyExitOnlyWhenNotDiffuse ==
    /\ call.kind = "exit" =>
          \/ call.fi > max_frames_rendering
          \/ (call.fi > 1 /\ ~enable_accumulation /\ ~call.diffuse)
    /\ call.kind = "shade" =>
          /\ ~(call.fi > max_frames_rendering)
          /\ \A d \in BOOLEAN : ~(call.fi > 1 /\ ~enable_accumulation /\ ~d)

\* C8 (as claimed): every render call that returns success leaves frame_index
\* one greater than at its shading decision.
C8_EverySuccessIncrements ==
    (pc = "idle" /\ call.result = "ok") => frame_index = call.fi + 1

\* C8 (amended): a call that shades and uploads increments frame_index by
\* exactly one; a call that returns early succeeds and leaves it unchanged.
C8_ShadedSuccessIncrements ==
    (pc = "idle" /\ call.result = "ok") =>
        /\ call.kind = "shade" => frame_index = call.fi + 1
        /\ call.kind = "exit" => frame_index = call.fi

\* C8 witness: the second accumulated frame has been uploaded
C8_Witness == ShadedOk /\ call.fi = 2 /\ frame_index = 3

\* C9: after the N-th consecutive shading call each accumulator holds N
\* samples of its own pixel and the pixel's colour is their mean, clamped;
\* without accumulation it holds the one clamped sample.
C9_AccumulatorSumsOwnSamples ==
    ShadedOk =>
        \A i \in 1..NumPixels :
            IF enable_accumulation
            THEN /\ shaded_frames = call.fi
                 /\ acc_rays[i] = [n \in 1..shaded_frames |-> i - 1]
                 /\ accumulated[i].w = shaded_frames
                 /\ Quad(i) = to_rgba(Vec4Clamp(
                                 Vec4Div(accumulated[i], shaded_frames)))
            ELSE /\ acc_rays[i] = <<i - 1>>
                 /\ accumulated[i] = Vec4Clamp(accumulated[i])
                 /\ Quad(i) = to_rgba(accumulated[i])

\* ======================================================= claims, tracer
\* the primary ray hits no object of the scene
PrimaryMisses == ~trace_ray(primary.ray).some

\* C10 (as claimed): for a primary ray that hits no object albedo returns
\* exactly ambient_color, whatever max_ray_bounces is (0 included), in the
\* direct-light and in the diffuse variant.
C10_MissReturnsAmbient ==
    (traced.done /\ PrimaryMisses) =>
        traced.col = Grey(Over1(scene.ambient_color))

\* C10 (amended): with max_ray_bounces >= 1 a primary ray that hits no object
\* is given exactly ambient_color, in both variants; with max_ray_bounces = 0
\* albedo returns the zero light it starts from, for every ray, and no random
\* number is drawn in either case.
C10_MissReturnsAmbientBelowLimit ==
    traced.done =>
        /\ (PrimaryMisses /\ scene.max_ray_bounces >= 1) =>
               /\ traced.col = Grey(Over1(scene.ambient_color))
               /\ traced.rnd = primary.rnd
        /\ scene.max_ray_bounces = 0 =>
               (traced.col = Black /\ traced.rnd = primary.rnd)

\* C10 witness: in the diffuse variant, a ray that leaves a scene of two
\* planes behind it has been given a non-zero ambient colour
C10_Witness ==
    /\ traced.done
    /\ PrimaryMisses
    /\ scene.diffuse
    /\ Len(scene.objects) = 2
    /\ scene.max_ray_bounces >= 1
    /\ scene.ambient_color > 0
    /\ traced.col = Grey(Over1(scene.ambient_color))
    /\ traced.col # Black

\* what the intersect of object k of the scene returns for the primary ray
HitOf(k) == ray_hit(scene.objects[k], primary.ray)

\* the objects whose intersect yields a hit with distance > 0
ValidHits == {k \in DOMAIN scene.objects :
                 HitOf(k).some /\ Positive(HitOf(k).hit.distance)}

\* C11: trace_ray returns none exactly when no object yields a hit with
\* distance > 0; otherwise it returns the hit and the index of an object
\* that yields a hit with distance > 0, no other such object is nearer, and
\* of the objects at that smallest distance it is the first in scene.objects.
C11_NearestValidHitFirstWins ==
    found.done =>
        IF ValidHits = {} THEN ~found.res.some
        ELSE /\ found.res.some
             /\ found.res.idx \in ValidHits
             /\ found.res.hit = HitOf(found.res.idx).hit
             /\ Positive(found.res.hit.distance)
             /\ \A j \in ValidHits :
                   /\ NotLonger(found.res.hit.distance, HitOf(j).hit.distance)
                   /\ HitOf(j).hit.distance = found.res.hit.distance
                         => found.res.idx <= j

\* C11 witness: the second of three objects is returned; the first yields a
\* hit at a distance <= 0 and the third ties with the second
C11_Witness ==
    /\ found.done
    /\ Len(scene.objects) = 3
    /\ HitOf(1).some /\ ~Positive(HitOf(1).hit.distance)
    /\ found.res.some /\ found.res.idx = 2
    /\ HitOf(3).some /\ HitOf(3).hit.distance = found.res.hit.distance

PrimaryHit == trace_ray(primary.ray)
PrimaryMaterial == scene.materials[PrimaryHit.hit.material_index]

\* C12: the colour recursion terminates and stops at the bounce limit.  Every
\* call of color or color_diffuse has a depth of at most max_ray_bounces (each
\* recursive call is made with depth + 1 from a call below the limit), no ray
\* is traced at a depth of max_ray_bounces or more, so at most
\* 2^max_ray_bounces - 1 rays are traced, and the call at the limit returns the
\* light it was given unmodified: with max_ray_bounces = 1 a Reflective
\* primary hit yields, in the diffuse variant, exactly its own emission and,
\* in the direct variant, its own light blended with itself.
C12_NoRayTracedAtBounceLimit ==
    traced.done =>
        /\ traced.log.calls >= 1
        /\ traced.log.depth <= scene.max_ray_bounces
        /\ traced.log.deepest < scene.max_ray_bounces
        /\ traced.log.rays <= 2 ^ scene.max_ray_bounces - 1
        /\ traced.log.calls <= 2 ^ (scene.max_ray_bounces + 1) - 1
        /\ scene.max_ray_bounces = 0 =>
              /\ traced.col = Black /\ traced.rnd = primary.rnd
              /\ traced.log = Entered(0)
        /\ (/\ scene.max_ray_bounces = 1
            /\ PrimaryHit.some
            /\ PrimaryMaterial.kind = "Reflective") =>
              LET hit == PrimaryHit.hit
                  m == PrimaryMaterial
                  a == HitAlbedo(m, hit)
                  p == light(primary.ray, hit, a, m, PrimaryHit.idx)
              IN  /\ traced.log.calls = 2 /\ traced.log.rays = 1
                  /\ traced.col
                       = IF scene.diffuse
                         THEN Grey(Over1(m.emission_power * a))
                         ELSE ColourSum(ColourTimes(p, Over1(m.roughness)),
                                        ColourTimes(ColourProduct(p, p),
                                                    Over1(1 - m.roughness)))

\* a diffuse recursion that traced a refraction ray and reached the limit
C12_Witness ==
    /\ traced.done
    /\ scene.max_ray_bounces >= 2
    /\ scene.diffuse
    /\ traced.log.refracted >= 1
    /\ traced.log.depth = scene.max_ray_bounces
    /\ traced.log.deepest = scene.max_ray_bounces - 1
    /\ traced.log.rays >= 3

\* the sign of k in refraction_ray for the primary hit: the ray's vector v
\* has the cosine |v.n| / |v| to the normal, and k is
\* 1 - eta^2 * (1 - cosine^2); the sign is that of
\* eta_t^2 * v.v - eta_i^2 * (v.v - (v.n)^2)
PrimaryK ==
    LET v == primary.ray.vector
        vn == Dot3(v, Normal3(PrimaryHit.hit))
        n == PrimaryMaterial.refraction_index
        eta_i == IF vn < 0 THEN n.den ELSE n.num
        eta_t == IF vn < 0 THEN n.num ELSE n.den
    IN  eta_t * eta_t * Dot3(v, v) - eta_i * eta_i * (Dot3(v, v) - vn * vn)

\* the mirror recursion of the primary hit, made on its own
PrimaryMirror ==
    LET hit == PrimaryHit.hit
        m == PrimaryMaterial
        mirror_ray == RayAlong(hit.point + hit.normal,
                               FracPlus(hit.point_x, hit.normal_x),
                               hit.point_y,
                               reflect(primary.ray.vector, Normal3(hit)))
    IN  IF scene.diffuse
        THEN color_diffuse(mirror_ray, primary.rnd, 1,
                           Grey(Over1(m.emission_power * m.albedo)), m.albedo)
        ELSE color(mirror_ray, primary.rnd, 1,
                   light(primary.ray, hit, m.albedo, m, PrimaryHit.idx),
                   m.albedo)

\* C13: at a Refractive hit below the bounce limit the recursion through the
\* mirror-reflection ray is always made, with depth + 1, and the recursion
\* through the refraction ray is made exactly when refraction_ray returns a
\* ray.  At a primary Refractive hit with k < 0 (total internal reflection)
\* no refraction ray is traced, the refraction colour is zero, and the colour
\* returned is the one of the mirror recursion weighted by kr (which is 1
\* where the normal of the hit faces the ray, as that of a plane does).
C13_MirrorTracedWithOrWithoutRefraction ==
    traced.done =>
        /\ traced.log.mirrored = traced.log.refractive
        /\ traced.log.refracted + traced.log.tir = traced.log.refractive
        /\ (/\ scene.max_ray_bounces >= 1
            /\ PrimaryHit.some
            /\ PrimaryMaterial.kind = "Refractive") =>
              LET mirror == PrimaryMirror
              IN  /\ traced.log.mirrored >= 1 + mirror.log.mirrored
                  /\ mirror.log.calls >= 1
                  /\ mirror.log.depth >= 1
                  /\ traced.log.calls >= 1 + mirror.log.calls
                  /\ PrimaryK < 0 =>
                        /\ traced.log.tir = 1 + mirror.log.tir
                        /\ traced.log.mirrored = 1 + mirror.log.mirrored
                        /\ traced.log.refracted = mirror.log.refracted
                        /\ traced.log.calls = 1 + mirror.log.calls
                        /\ traced.log.rays = 1 + mirror.log.rays
                        /\ traced.rnd = mirror.rnd
                        /\ fresnel(primary.ray.vector, Normal3(PrimaryHit.hit),
                                   PrimaryMaterial.refraction_index,
                                   PrimaryMaterial.reflectivity) = Over1(1)
                        /\ traced.col
                             = IF scene.diffuse THEN mirror.col
                               ELSE ColourTimes(mirror.col,
                                                Over1(PrimaryMaterial.albedo))
                  /\ PrimaryK >= 0 =>
                        /\ traced.log.refracted >= 1 + mirror.log.refracted
                        /\ traced.log.tir >= mirror.log.tir
                        /\ traced.log.calls > 1 + mirror.log.calls

\* a ray across the axis, 3 to the side for 4 along it, met glass half as
\* dense as the air, of albedo 2, at the plane at 2; its mirror ray went on
\* to the rough plane at -2, which a light of intensity 2 shines on: the
\* colour is twice the power 2^0.4166 that light() gives there
C13_Witness ==
    /\ traced.done
    /\ scene.max_ray_bounces = 2
    /\ ~scene.diffuse
    /\ primary.ray.vector = <<3, 0, 4>>
    /\ PrimaryHit.some
    /\ PrimaryHit.hit.point = 2
    /\ PrimaryHit.hit.point_x = Frac(3, 2)
    /\ PrimaryMaterial.kind = "Refractive"
    /\ PrimaryMaterial.refraction_index = Frac(1, 2)
    /\ PrimaryK < 0
    /\ traced.log.tir = 1
    /\ traced.log.refracted = 0
    /\ traced.log.mirrored = 1
    /\ traced.log.rays = 2
    /\ traced.log.lights = 2
    /\ traced.col = [x \in {Over1(2)} |-> Over1(2)]

\* the ray does not reach object k: a plane parallel to the ray or behind
\* its origin, a triangle parallel to the ray, a sphere whose centre is
\* farther from the line of the ray than its radius
Degenerate(k) ==
    LET obj == scene.objects[k]
        ray == primary.ray
    IN  CASE obj.kind = "Plane" ->
               \/ ray.direction * obj.normal = 0
               \/ (obj.point - ray.origin) * obj.normal * ray.direction < 0
          [] obj.kind = "Triangle" ->
               Dot3(Direction3(ray),
                    Cross3(Sub3(obj.v2, obj.v1), Sub3(obj.v3, obj.v1))) = 0
          [] obj.kind = "Sphere" ->
               (obj.position_x - Floor(ray.origin_x))
                       * (obj.position_x - Floor(ray.origin_x))
                   > obj.radius * obj.radius

Remaining == {k \in DOMAIN scene.objects : ~Degenerate(k)}

\* C19: a degenerate object is reported as no hit (a plane parallel to the
\* ray or behind it, a triangle parallel to the ray, a sphere with a
\* negative discriminant), and the scan skips it: what trace_ray returns is
\* the nearest hit with a positive distance among the remaining objects, or
\* none if they have no such hit.
C19_DegenerateObjectsAreSkipped ==
    found.done =>
        /\ \A k \in DOMAIN scene.objects : Degenerate(k) => ~HitOf(k).some
        /\ LET valid == {k \in Remaining :
                           HitOf(k).some /\ Positive(HitOf(k).hit.distance)}
           IN  IF valid = {} THEN ~found.res.some
               ELSE /\ found.res.some
                    /\ found.res.idx \in valid
                    /\ \A j \in valid :
                          NotLonger(HitOf(found.res.idx).hit.distance,
                                    HitOf(j).hit.distance)

\* a plane along the ray and a sphere beside it, skipped for the third object
C19_Witness ==
    /\ found.done
    /\ Len(scene.objects) = 3
    /\ scene.objects[1].kind = "Plane" /\ Degenerate(1)
    /\ scene.objects[2].kind = "Sphere" /\ Degenerate(2)
    /\ found.res.some /\ found.res.idx = 3

\* C24: Triangle::intersect returns no hit at a distance of zero or less,
\* that is at or behind the origin of the ray; a hit it returns on the back
\* face is a valid hit in front of the ray whose normal is turned to face
\* the origin of the ray.
C24_TriangleHitInFrontOfRay ==
    found.done =>
        \A k \in DOMAIN scene.objects :
            (scene.objects[k].kind = "Triangle" /\ HitOf(k).some) =>
                /\ Positive(HitOf(k).hit.distance)
                /\ HitOf(k).hit.normal * primary.ray.direction
                     + HitOf(k).hit.normal_x * 0 < 0

\* C20: in diffuse mode no direct light is evaluated for any ray of the
\* recursion: light() is never called and no shadow ray is cast, the rays
\* spawned by refraction and reflection at Refractive materials included.
C20_DiffuseModeEvaluatesNoLight ==
    (traced.done /\ scene.diffuse) =>
        /\ traced.log.lights = 0
        /\ traced.log.shadows = 0

\* C23: in non-diffuse mode with enable_accumulation false, reflection_ray
\* draws no random number and returns the exact mirror direction, so albedo
\* leaves the generator as it found it and returns the same colour from
\* every state of the generator.
C23_ColourIndependentOfGenerator ==
    (traced.done /\ ~scene.diffuse /\ ~scene.enable_accumulation) =>
        /\ traced.rnd = primary.rnd
        /\ \A r \in 0..(RngMod - 1) :
              /\ albedo(primary.ray, r).col = traced.col
              /\ albedo(primary.ray, r).rnd = r
        /\ (PrimaryHit.some /\ PrimaryMaterial.kind = "Reflective") =>
              \A r \in 0..(RngMod - 1) :
                  reflection_ray(primary.ray, PrimaryHit.hit,
                                 PrimaryMaterial.roughness, r, FALSE, FALSE)
                      = [ray |-> MirrorRay(primary.ray, PrimaryHit.hit),
                         rnd |-> r, draws |-> 0]

\* a rough surface was hit and its mirror ray traced on to another object
C23_Witness ==
    /\ traced.done
    /\ ~scene.diffuse /\ ~scene.enable_accumulation
    /\ scene.max_ray_bounces >= 2
    /\ PrimaryHit.some
    /\ PrimaryMaterial.kind = "Reflective"
    /\ PrimaryMaterial.roughness = 1
    /\ traced.log.rays >= 2
    /\ traced.log.lights >= 1
    /\ traced.col # Black

\* ====================================================== claims, marcher
\* C14: march_ray ends after at most MAX_STEPS evaluations of the distance
\* field.  It reports a hit only when the least distance at the current point
\* is below HIT_PRECISION, and the hit carries the t reached; it reports no
\* hit when t is beyond MAX_DISTANCE or MAX_STEPS evaluations were made, and
\* with no object in scene.sdfs it reports no hit after one evaluation.
C14_MarchEndsWithinMaxSteps ==
    /\ march.pc = "loop" =>
          /\ march.i <= MAX_STEPS
          /\ march.evals = march.i
          /\ ~march.res.some
    /\ march.pc = "done" =>
          /\ march.evals <= MAX_STEPS
          /\ IF march.res.some
             THEN LET r == sdfs(primary.ray, march.at)
                  IN  /\ r.hit.distance < 1
                      /\ march.res.obj_idx = r.obj_idx
                      /\ march.res.hit.distance = march.at + r.hit.distance
                      /\ march.evals = march.i + 1
             ELSE /\ march.t > MAX_DISTANCE * 1000 \/ march.i = MAX_STEPS
                  /\ march.evals = march.i
                  /\ march.evals >= 1 => sdfs(primary.ray, march.at).hit.distance >= 1
          /\ scene.sdfs = <<>> => ~march.res.some /\ march.evals = 1

\* the steps ran out beside a plane along the axis, short of MAX_DISTANCE
C14_Witness ==
    /\ march.pc = "done"
    /\ ~march.res.some
    /\ march.evals = MAX_STEPS
    /\ march.t <= MAX_DISTANCE * 1000
    /\ scene.sdfs # <<>>

\* C15: the distance Union::sdf returns is never larger than the smaller of
\* the distances of its two objects; it is that distance when the two differ
\* by k = 0.7 or more, and at most k / 4 below it otherwise.
C15_SmoothUnionAtMostMin ==
    (probe.fn = "Union::sdf" /\ probe.done) =>
        LET d1 == probe.h1.distance
            d2 == probe.h2.distance
            d == probe.out.distance
            least == Min(d1, d2)
        IN  /\ d.den > 0
            /\ d.num <= least * d.den
            /\ 4 * d.num >= (4 * least - 7) * d.den
            /\ (d1 - d2 >= 7 \/ d2 - d1 >= 7) => d.num = least * d.den

\* two distances closer than k, blended strictly below both
C15_Witness ==
    /\ probe.fn = "Union::sdf" /\ probe.done
    /\ probe.h1.distance - probe.h2.distance = 3
    /\ probe.out.distance.num < probe.h2.distance * probe.out.distance.den


\* ========================================================== claims, app
\* a step of the application with respect to the hook and the render call
HookStep ==
    /\ (app'.hooks # app.hooks \/ scene' # scene) =>
          /\ pc \in {"new", "idle"}
          /\ tile_count = 0
          /\ pc' = pc /\ tile_count' = 0 /\ chunks' = chunks
    /\ (pc = "par" \/ pc' = "par") =>
          /\ scene' = scene
          /\ app' = app
    /\ app'.ups # app.ups =>
          /\ app'.ups = app.ups + 1
          /\ app'.hooks = app.hooks + (IF scene.update_func THEN 1 ELSE 0)
    /\ app'.hooks # app.hooks => app'.ups = app.ups + 1

\* C16: the update hook is called once per logic tick, by the thread of the
\* application loop, between render calls: a step that calls the hook or
\* writes the scene is taken with no render call in flight and starts none,
\* and while the chunks of a render call are in flight the scene, the ticks
\* and the calls of the hook stay as they are.
C16_HookOnlyBetweenRenderCalls == [][HookStep]_vars

\* the hook wrote the scene, a render call with chunks followed, then a tick
C16_Witness ==
    /\ scene.update_func
    /\ app.hooks = 2
    /\ scene.diffuse
    /\ pc = "idle"
    /\ frame_index > 1

\* ===================================================== claims, textures
\* C17: sampling a texture at any (u, v), below 0, above 1 or exactly 1
\* included, wraps around into the image: it reads the three bytes of the
\* pixel (x mod width, y mod height) with x = floor(width * u) and
\* y = floor(height * v), inside the buffer of width * height * 3 bytes, and
\* never computes an index outside the buffer.
C17_SampleWrapsInsideBuffer ==
    (probe.fn = "Texture::baricentric_pixel" /\ probe.done) =>
        LET tex == probe.tex
            x == ((tex.width * probe.u) \div 10) % tex.width
            y == ((tex.height * probe.v) \div 10) % tex.height
            pos == y * 3 * tex.width + x * 3
        IN  /\ ~probe.out.panic
            /\ probe.out.pos >= 0
            /\ probe.out.pos + 2 < tex.width * tex.height * 3
            /\ probe.out.pos = pos
            /\ probe.out.rgb = << tex.bytes[pos + 1], tex.bytes[pos + 2],
                                  tex.bytes[pos + 3] >>

\* ==================================================== claims, geometry
\* the largest magnitude among the components of a vector of f32
Largest(v) ==
    CHOOSE c \in { v[i] : i \in 1..3 } : \A i \in 1..3 : F32Within(v[i], c)

\* the normal lies along an axis
AxisNormal(n) == Cardinality({ i \in 1..3 : n[i].m # 0 }) = 1

\* C18 (as claimed): reflecting a vector twice about the same unit normal
\* gives back the vector: reflect(reflect(v, n), n) = v.
C18_ReflectTwiceIsIdentity ==
    (probe.fn = "reflect" /\ probe.done) => probe.out = probe.vec

\* C18 (amended): reflecting a vector twice about the same unit normal gives
\* back the vector up to the rounding of f32: every component of
\* reflect(reflect(v, n), n) is within 2^-18 times the largest magnitude of a
\* component of v from the component of v, and it is v itself when the
\* normal lies along an axis.
C18_ReflectTwiceWithinRounding ==
    (probe.fn = "reflect" /\ probe.done) =>
        /\ \A i \in 1..3 :
              F32Within(F32Sub(probe.out[i], probe.vec[i]),
                        IF Largest(probe.vec).m = 0 THEN F32Zero
                        ELSE F32(FALSE, Largest(probe.vec).m,
                                 Largest(probe.vec).e - 18))
        /\ AxisNormal(probe.normal) => probe.out = probe.vec

\* a vector that its reflection about an oblique normal moved, and that the
\* second reflection brought back within the rounding, not onto itself
C18_Witness ==
    /\ probe.fn = "reflect" /\ probe.done
    /\ probe.normal = << F32Of(3, 5), F32Of(4, 5), F32Zero >>
    /\ probe.vec = << F32Of(1, 1), F32Of(2, 1), F32Of(-1, 1) >>
    /\ probe.once # probe.vec
    /\ probe.out # probe.vec
    /\ \A i \in 1..3 :
          F32Within(F32Sub(probe.out[i], probe.vec[i]), F32(FALSE, 2^23, -44))

\* ============================================== claims, marcher shading
\* the entries of scene.sdfs, by position, and the distance of each at the
\* point march_ray sampled last
EntryAt(k) == SdfsArm(scene.sdfs[k], primary.ray, march.at)

\* the entry that owns the least distance there, the first of equals
Owner ==
    CHOOSE k \in DOMAIN scene.sdfs :
        \A j \in DOMAIN scene.sdfs :
            /\ EntryAt(k).hit.distance <= EntryAt(j).hit.distance
            /\ EntryAt(j).hit.distance = EntryAt(k).hit.distance => k <= j

\* the material of an entry: its own, or the one of the first child of a
\* Union or a Substraction
EntryMaterial(idx) ==
    LET e == scene.objects[idx]
    IN  IF e.kind \in {"Union", "Substraction"}
        THEN scene.objects[e.first].material_index
        ELSE e.material_index

\* C21: on a hit, the index march_ray returns names the object that owns the
\* least distance at the point sampled (what sdfs returns there), and the hit
\* is shaded with the material of that owner: its own material for a plain
\* object, the material of the first child for a Union or a Substraction.
C21_HitShadedWithOwnersMaterial ==
    (march.pc = "shaded" /\ march.res.some) =>
        /\ march.res.obj_idx = sdfs(primary.ray, march.at).obj_idx
        /\ scene.objects[scene.sdfs[Owner]].kind \in {"Plane", "Sphere"} =>
              march.res.obj_idx = scene.sdfs[Owner]
        /\ march.mat_idx = EntryMaterial(scene.sdfs[Owner])
        /\ march.rayhit.material_index = EntryMaterial(scene.sdfs[Owner])

\* ===================================================== claims, shadows
\* the light l is farther from the point than the distance d (a Directional
\* light is farther than every object)
BeforeLight(l, point, d) ==
    l.kind = "Directional" \/ Shorter(d, Along(light_distance(l, point)))

\* some object other than the one hit lies on the shadow ray of light k,
\* between the hit and the light
Occluded(k) ==
    \E j \in DOMAIN scene.objects :
        /\ j # probe.obj_index
        /\ LET h == ray_hit(scene.objects[j],
                            ShadowRay(probe.hit, scene.lights[k]))
           IN  /\ h.some
               /\ Positive(h.hit.distance)
               /\ BeforeLight(scene.lights[k], probe.hit.point,
                              h.hit.distance)

\* C22: with shadow_casting the light of a hit is halved on account of a
\* light only if the shadow ray towards that light hits another object
\* nearer than the light; an object beyond the light, or the hit object
\* itself, does not darken the point.  Without shadow_casting no shadow ray
\* is traced and the light is the gamma-corrected sum.
C22_HalvedOnlyWhenOccludedBeforeLight ==
    (probe.fn = "RayTracing::light" /\ probe.done) =>
        /\ scene.shadow_casting =>
              \A k \in DOMAIN scene.lights : probe.halved[k] => Occluded(k)
        /\ ~scene.shadow_casting =>
              /\ probe.halved = <<>>
              /\ probe.out = Gamma(probe.l_acc)

\* the matrix an object's fields stand for
CurrentTransform(obj) ==
    Mat4(obj.position, obj.rotation_axis,
         IF obj.kind = "Sphere" THEN obj.radius ELSE 10)

\* the sphere with other fields and the same matrices
Refielded(obj, p, r) == [obj EXCEPT !.position = p, !.radius = r]

\* C25: every render call that follows calls of the update hook sees, for
\* each object the hook moved or turned, the forward transform of the
\* object's present fields and its inverse; the intersection it computes is
\* read from the two matrices, whatever the fields hold, and the call leaves
\* the objects and their matrices as it found them.
C25_RenderSeesRebuiltTransforms ==
    /\ found.stage = "render" \/ found.done =>
          /\ \A k \in DOMAIN found.seen :
                /\ found.seen[k].transform = CurrentTransform(found.seen[k])
                /\ found.seen[k].inv_transform
                     = inverse(CurrentTransform(found.seen[k]))
          /\ \A p \in {<<0, 0, 0>>, <<20, 8, -20>>}, r \in {15, 30} :
                found.hit = sphere_intersect_cached(
                                Refielded(found.seen[1], p, r), primary.ray)
    /\ found.done => found.after = found.seen

\* a render call has returned after two calls of the hook, which moved the
\* sphere to y = 0.8 and turned the cylinder to 4 degrees about y; its ray
\* hit the moved sphere of radius 3 on the upper half, 2 above the centre
C25_Witness ==
    /\ found.done
    /\ found.hooks = 2
    /\ found.seen[1].position = <<0, 8, -20>>
    /\ found.seen[1].radius = 30
    /\ found.seen[2].rotation_axis = <<0, 4, 45>>
    /\ found.seen[2].transform.rotation = <<0, 4, 45>>
    /\ primary.ray.direction = <<0, -1, 0>>
    /\ found.hit.some
    /\ found.hit.hit.distance = 32
    /\ found.hit.hit.point = <<10, 28, 0>>
    /\ found.hit.hit.normal = [num |-> <<10, 20, 20>>, den |-> 30]

\* C26: a render call of the application loop that follows a window resize,
\* a camera-changing input or a hook that returned true is passed
\* updated = true; after a resize the camera has the new size and img has
\* 4 * width * height bytes when render is called; and every call that
\* shades does so with an accumulation buffer and a ray-direction array of
\* width * height entries and an image buffer of 4 * width * height bytes.
C26_RenderAfterChangeIsUpdated ==
    app.last.done =>
        /\ (\/ app.last.since.resize # NoResize
            \/ app.last.since.camera
            \/ app.last.since.hook) => app.last.updated
        /\ app.last.since.resize # NoResize =>
              /\ <<app.last.width, app.last.height>> = app.last.since.resize
              /\ app.last.img_len = 4 * app.last.width * app.last.height
        /\ app.last.kind = "shade" =>
              /\ app.last.acc_len = app.last.width * app.last.height
              /\ app.last.rays = app.last.width * app.last.height
              /\ app.last.img_len = 4 * app.last.width * app.last.height

\* a shading render call after a resize to another number of pixels, and one
\* after a tick in which the camera moved and the hook returned false
C26_Witness ==
    /\ app.last.done
    /\ app.last.kind = "shade"
    /\ app.last.updated
    /\ \/ /\ app.last.since.resize # NoResize
          /\ app.last.old_pixels > 0
          /\ app.last.old_pixels # app.last.acc_len
       \/ /\ app.last.since.resize = NoResize
          /\ app.last.since.camera
          /\ ~app.last.since.hook
          /\ scene.update_func
          /\ app.last.old_pixels > 0

\* C27: a render call of the application loop returns early exactly when
\* frame_index exceeds the scene's max_frames_rendering, or frame_index > 1
\* and the scene's enable_accumulation is false; so a scene with accumulation
\* enabled keeps being shaded until its frame limit.
C27_RenderAppliesSceneSettings ==
    app.last.done =>
        (app.last.kind = "exit"
            <=> EarlyExit(call.fi, scene.max_frames_rendering,
                          scene.enable_accumulation))

\* C28: when texture.update fails, render returns the error with the
\* renderer as the call found it (after the reset for updated = true, if
\* any): frame_index is the one the call shaded with and every accumulator
\* holds the samples of the frame_index - 1 frames before it, not one more.
C28_FailedUploadLeavesRendererUnchanged ==
    pc = "failed" =>
        /\ frame_index = call.fi
        /\ \A i \in DOMAIN accumulated : accumulated[i].w = frame_index - 1

\* C29: a render call with updated = true that shades does not panic, for
\* any camera size and any num_chunks >= 1: the chunk size it computes is not
\* 0, and the accumulator slice and the ray directions of every chunk lie
\* within the width * height entries.
C29_UpdatedShadingCallNeverPanics ==
    (call.kind = "shade" /\ call.updated) =>
        /\ pc # "panic"
        /\ \A k \in DOMAIN chunks :
              chunks[k].st # "pending" =>
                 /\ chunks[k].size > 0
                 /\ chunks[k].pixel_offset >= 0
                 /\ chunks[k].pixel_offset + chunks[k].size
                      <= camera.width * camera.height

\* C30: in every state reached by render calls frame_index is at least 1
\* and at most max_frames_rendering + 1, and at most 2 while accumulation is
\* disabled.
C30_FrameIndexBounds ==
    /\ 1 <= frame_index
    /\ frame_index <= max_frames_rendering + 1
    /\ ~enable_accumulation => frame_index <= 2

\* the frame limit is reached with accumulation enabled and a call returned
\* early because of it
C30_Witness ==
    /\ enable_accumulation
    /\ frame_index = max_frames_rendering + 1
    /\ call.kind = "exit"
    /\ call.fi = frame_index

====
